---- MODULE Spec2Model ----
(***************************************************************************)
(* Time-ablation harness for the airline benchmark: the date pattern       *)
(* engine and text scanner (date_utils.py), the structured transformer     *)
(* (generate_dataset.py) and the validator (validate.py).                  *)
(*                                                                         *)
(* A Python str is a sequence of one-character strings, so that parsing,   *)
(* formatting and regular-expression scanning are computed character by    *)
(* character.  A raised exception is the one-element sequence naming it,   *)
(* which no text equals.                                                   *)
(***************************************************************************)
EXTENDS Integers, Sequences, FiniteSets, TLC

VARIABLES
  pc,         \* "call" before the function is called, "done" once it
              \* returned; for a dataset, the step of the generation
  op,         \* the function that is called
  text,       \* its text / date_str / ts_str argument
  days,       \* its days / offset_days argument
  base_year,  \* its base_year argument
  out,        \* what the call returned, or the exception it raised
  lits,       \* the literals and separators the argument was written from
  db,         \* db.json of the original dataset
  tasks,      \* tasks.json of the original dataset
  policy,     \* policy.md of the original dataset
  variant,    \* the data directory of the variant and its files
  report,     \* the ValidationResult of the variant
  heap,       \* the objects of a call that is followed object by object
  force,      \* the force argument of generate_offset_dataset
  src_dir,    \* the source directory of the variant and its files
  disk,       \* the directories on disk, by name, and their files
  procs,      \* the processes at work: their call and how far it is
  runs,       \* the offsets run_domain was started for, in order
  verdicts    \* the offsets validated, with the last verdict of each

vars ==
  <<pc, op, text, days, base_year, out, lits, db, tasks, policy, variant,
    report, heap, force, src_dir, disk, procs, runs, verdicts>>

\* the dataset being transformed and validated
dataVars == <<db, tasks, policy, variant, report>>

\* what a call of generate_offset_dataset or a call followed object by
\* object has besides
genVars == <<heap, force, src_dir>>

\* what several processes share: the disk, and what was validated and run
orchVars == <<disk, procs, runs, verdicts>>

\* one call is followed, on its own: no process, nothing validated or run
NoProcesses ==
  disk = <<>> /\ procs = <<>> /\ runs = <<>> /\ verdicts = <<>>

(***************************************************************************)
(* Characters                                                              *)
(***************************************************************************)
Digits == <<"0","1","2","3","4","5","6","7","8","9">>

Letters ==
  {"a","b","c","d","e","f","g","h","i","j","k","l","m","n","o","p","q","r",
   "s","t","u","v","w","x","y","z","A","B","C","D","E","F","G","H","I","J",
   "K","L","M","N","O","P","Q","R","S","T","U","V","W","X","Y","Z"}

IsDigit(c) == c \in {"0","1","2","3","4","5","6","7","8","9"}

DigitVal(c) == (CHOOSE i \in 1..10 : Digits[i] = c) - 1

DigitChar(n) == Digits[n + 1]

\* regex \s and \w on the characters a text can hold
IsSpace(c) == c \in {" ", "\t", "\n"}

IsWordChar(c) == IsDigit(c) \/ c \in Letters \/ c = "_"

AllDigits(s, i, j) == \A k \in i..j : k <= Len(s) /\ IsDigit(s[k])

RECURSIVE IntOf(_)
\* int(str) of a string of digits
IntOf(s) ==
  IF s = <<>> THEN 0
  ELSE 10 * IntOf(SubSeq(s, 1, Len(s) - 1)) + DigitVal(s[Len(s)])

RECURSIVE StrOf(_)
\* str(n) / f"{n}" of a natural number: no padding
StrOf(n) ==
  IF n < 10 THEN <<DigitChar(n)>>
  ELSE StrOf(n \div 10) \o <<DigitChar(n % 10)>>

\* strftime's %m, %d, %H, %M, %S (two digits) and %Y (four digits)
Pad2(n) == <<DigitChar((n \div 10) % 10), DigitChar(n % 10)>>

Pad4(n) == Pad2(n \div 100) \o Pad2(n % 100)

ValueError == <<"ValueError">>

OverflowError == <<"OverflowError">>

FileExistsError == <<"FileExistsError">>

IsException(r) == r \in {ValueError, OverflowError}

(***************************************************************************)
(* The proleptic Gregorian calendar of datetime                            *)
(***************************************************************************)
MONTH_NAMES ==
  << <<"J","a","n","u","a","r","y">>,
     <<"F","e","b","r","u","a","r","y">>,
     <<"M","a","r","c","h">>,
     <<"A","p","r","i","l">>,
     <<"M","a","y">>,
     <<"J","u","n","e">>,
     <<"J","u","l","y">>,
     <<"A","u","g","u","s","t">>,
     <<"S","e","p","t","e","m","b","e","r">>,
     <<"O","c","t","o","b","e","r">>,
     <<"N","o","v","e","m","b","e","r">>,
     <<"D","e","c","e","m","b","e","r">> >>

MONTH_NAMES_SHORT ==
  << <<"J","a","n">>,
     <<"F","e","b">>,
     <<"M","a","r">>,
     <<"A","p","r">>,
     <<"M","a","y">>,
     <<"J","u","n">>,
     <<"J","u","l">>,
     <<"A","u","g">>,
     <<"S","e","p">>,
     <<"O","c","t">>,
     <<"N","o","v">>,
     <<"D","e","c">> >>

\* MONTH_TO_NUM.get(name): the month number, 0 for None
MONTH_TO_NUM(name) ==
  IF \E i \in 1..12 : MONTH_NAMES[i] = name
    THEN CHOOSE i \in 1..12 : MONTH_NAMES[i] = name
  ELSE IF \E i \in 1..12 : MONTH_NAMES_SHORT[i] = name
    THEN CHOOSE i \in 1..12 : MONTH_NAMES_SHORT[i] = name
  ELSE 0

NUM_TO_MONTH(n) == MONTH_NAMES[n]

IsLeap(y) == y % 4 = 0 /\ (y % 100 # 0 \/ y % 400 = 0)

DaysInMonth(y, m) ==
  IF m = 2 THEN (IF IsLeap(y) THEN 29 ELSE 28)
  ELSE IF m \in {4, 6, 9, 11} THEN 30 ELSE 31

DaysBeforeYear(y) ==
  (y - 1) * 365 + ((y - 1) \div 4) - ((y - 1) \div 100) + ((y - 1) \div 400)

RECURSIVE DaysBeforeMonth(_, _)
DaysBeforeMonth(y, m) ==
  IF m = 1 THEN 0 ELSE DaysBeforeMonth(y, m - 1) + DaysInMonth(y, m - 1)

\* date.toordinal(): 0001-01-01 is day 1
Ymd2Ord(y, m, d) == DaysBeforeYear(y) + DaysBeforeMonth(y, m) + d

\* Ord2Ymd with every fourth year taken for a leap year, the century years
\* included
Ord2Ymd_EveryFourthYear(n) ==
  LET n0   == n - 1
      n400 == n0 \div 146097
      r400 == n0 % 146097
      n100 == r400 \div 36524
      r100 == r400 % 36524
      n4   == r100 \div 1461
      r4   == r100 % 1461
      n1   == r4 \div 365
      r1   == r4 % 365
      year == n400 * 400 + 1 + n100 * 100 + n4 * 4 + n1
      like == IF n1 = 3 THEN 4 ELSE 1
      mEst == (r1 + 50) \div 32
      month == IF DaysBeforeMonth(like, mEst) > r1 THEN mEst - 1 ELSE mEst
  IN  IF n1 = 4 \/ n100 = 4
        THEN [y |-> year - 1, m |-> 12, d |-> 31]
        ELSE [y |-> year, m |-> month,
              d |-> r1 - DaysBeforeMonth(like, month) + 1]

\* date.fromordinal(n), by the 400/100/4/1-year cycles datetime uses
Ord2Ymd(n) ==
  LET n0   == n - 1
      n400 == n0 \div 146097
      r400 == n0 % 146097
      n100 == r400 \div 36524
      r100 == r400 % 36524
      n4   == r100 \div 1461
      r4   == r100 % 1461
      n1   == r4 \div 365
      r1   == r4 % 365
      year == n400 * 400 + 1 + n100 * 100 + n4 * 4 + n1
      \* a year of the same leapness as `year`, for the month tables
      like == IF n1 = 3 /\ (n4 # 24 \/ n100 = 3) THEN 4 ELSE 1
      mEst == (r1 + 50) \div 32
      month == IF DaysBeforeMonth(like, mEst) > r1 THEN mEst - 1 ELSE mEst
  IN  IF n1 = 4 \/ n100 = 4
        THEN [y |-> year - 1, m |-> 12, d |-> 31]
        ELSE [y |-> year, m |-> month,
              d |-> r1 - DaysBeforeMonth(like, month) + 1]

\* the largest ordinal a date holds: 9999-12-31
MaxOrdinal == Ymd2Ord(9999, 12, 31)

(***************************************************************************)
(* datetime.strptime and strftime for "%Y-%m-%d" and "%Y-%m-%dT%H:%M:%S"   *)
(***************************************************************************)
NoField == [ok |-> FALSE, v |-> 0, next |-> 0]

\* One numeric directive of strptime's regex at position i: the two-digit
\* alternatives are tried first, then the one-digit one; `blank` adds %d's
\* " [1-9]".  lo..hi is the range of the two-digit form, lo1..9 of the
\* one-digit form.
StrpField(s, i, lo, hi, lo1, blank) ==
  IF i + 1 <= Len(s) /\ IsDigit(s[i]) /\ IsDigit(s[i + 1])
    THEN LET v == 10 * DigitVal(s[i]) + DigitVal(s[i + 1])
         IN  IF lo <= v /\ v <= hi
               THEN [ok |-> TRUE, v |-> v, next |-> i + 2]
               \* the one-digit alternative matches, and the literal after it
               \* then meets the second digit
               ELSE NoField
  ELSE IF i <= Len(s) /\ IsDigit(s[i])
    THEN IF lo1 <= DigitVal(s[i])
           THEN [ok |-> TRUE, v |-> DigitVal(s[i]), next |-> i + 1]
           ELSE NoField
  ELSE IF blank /\ i + 1 <= Len(s) /\ s[i] = " " /\ IsDigit(s[i + 1])
          /\ DigitVal(s[i + 1]) >= 1
    THEN [ok |-> TRUE, v |-> DigitVal(s[i + 1]), next |-> i + 2]
  ELSE NoField

LitAt(s, i, c) == i <= Len(s) /\ s[i] = c

NoDateTime ==
  [ok |-> FALSE, y |-> 0, m |-> 0, d |-> 0, H |-> 0, M |-> 0, S |-> 0]

\* datetime.strptime(s, fmt): fmt is "%Y-%m-%d", or with withTime
\* "%Y-%m-%dT%H:%M:%S".  ok is FALSE where strptime raises ValueError: the
\* regex does not match, data remains unconverted, or datetime() refuses
\* the fields.
Strptime(s, withTime) ==
  LET Seconds(y, fm, fd, fH, fM, fS) ==
        IF fS.ok /\ fS.next = Len(s) + 1 /\ fS.v <= 59
          THEN [ok |-> TRUE, y |-> y, m |-> fm.v, d |-> fd.v,
                H |-> fH.v, M |-> fM.v, S |-> fS.v]
          ELSE NoDateTime
      Minutes(y, fm, fd, fH, fM) ==
        IF ~(fM.ok /\ LitAt(s, fM.next, ":")) THEN NoDateTime
        ELSE Seconds(y, fm, fd, fH, fM,
                     StrpField(s, fM.next + 1, 0, 61, 0, FALSE))
      Hours(y, fm, fd, fH) ==
        IF ~(fH.ok /\ LitAt(s, fH.next, ":")) THEN NoDateTime
        ELSE Minutes(y, fm, fd, fH,
                     StrpField(s, fH.next + 1, 0, 59, 0, FALSE))
      Day(y, fm, fd) ==
        IF ~fd.ok \/ y < 1 \/ fd.v > DaysInMonth(y, fm.v) THEN NoDateTime
        ELSE IF ~withTime
          THEN IF fd.next = Len(s) + 1
                 THEN [ok |-> TRUE, y |-> y, m |-> fm.v, d |-> fd.v,
                       H |-> 0, M |-> 0, S |-> 0]
                 ELSE NoDateTime
        ELSE IF ~LitAt(s, fd.next, "T") THEN NoDateTime
        ELSE Hours(y, fm, fd, StrpField(s, fd.next + 1, 0, 23, 0, FALSE))
      Month(y, fm) ==
        IF ~(fm.ok /\ LitAt(s, fm.next, "-")) THEN NoDateTime
        ELSE Day(y, fm, StrpField(s, fm.next + 1, 1, 31, 1, TRUE))
  IN  IF ~(AllDigits(s, 1, 4) /\ LitAt(s, 5, "-")) THEN NoDateTime
      ELSE Month(IntOf(SubSeq(s, 1, 4)), StrpField(s, 6, 1, 12, 1, FALSE))

\* AddDays with the time of day lost, as date arithmetic would lose it
AddDays_DropTime(dt, n) ==
  LET At(nd) == [ok |-> TRUE, y |-> nd.y, m |-> nd.m, d |-> nd.d,
                 H |-> 0, M |-> 0, S |-> 0]
      From(ord) ==
        IF ord < 1 \/ ord > MaxOrdinal THEN NoDateTime ELSE At(Ord2Ymd(ord))
  IN  From(Ymd2Ord(dt.y, dt.m, dt.d) + n)

\* a multiple of 365 days taken as that many calendar years (the 29th of
\* February as the 28th), any other offset as days
AddDays_WholeYears(dt, n) ==
  LET At(nd) == [dt EXCEPT !.y = nd.y, !.m = nd.m, !.d = nd.d]
      From(ord) ==
        IF ord < 1 \/ ord > MaxOrdinal THEN NoDateTime ELSE At(Ord2Ymd(ord))
  IN  IF n % 365 = 0
        THEN [dt EXCEPT !.y = @ + (n \div 365),
                        !.d = IF dt.m = 2 /\ dt.d = 29 THEN 28 ELSE @]
        ELSE From(Ymd2Ord(dt.y, dt.m, dt.d) + n)

\* dt + timedelta(days=n): the ordinal moves by n, the seconds of the day
\* are carried over; ok is FALSE where the sum leaves 0001..9999
\* (OverflowError)
AddDays(dt, n) ==
  LET secs == dt.H * 3600 + dt.M * 60 + dt.S
      At(nd) == [ok |-> TRUE, y |-> nd.y, m |-> nd.m, d |-> nd.d,
                 H |-> secs \div 3600, M |-> (secs % 3600) \div 60,
                 S |-> secs % 60]
      From(ord) ==
        IF ord < 1 \/ ord > MaxOrdinal THEN NoDateTime ELSE At(Ord2Ymd(ord))
  IN  From(Ymd2Ord(dt.y, dt.m, dt.d) + n)

\* strftime's %Y: the C library writes the year without padding, so a year
\* below 1000 comes out shorter than four digits
StrftimeYear(y) == IF y < 1000 THEN StrOf(y) ELSE Pad4(y)

\* StrftimeDate with month and day written without their leading zero
StrftimeDate_Unpadded(dt) ==
  StrftimeYear(dt.y) \o <<"-">> \o StrOf(dt.m) \o <<"-">> \o StrOf(dt.d)

\* dt.strftime("%Y-%m-%d")
StrftimeDate(dt) ==
  StrftimeYear(dt.y) \o <<"-">> \o Pad2(dt.m) \o <<"-">> \o Pad2(dt.d)

\* dt.strftime("%Y-%m-%dT%H:%M:%S")
StrftimeTimestamp(dt) ==
  StrftimeDate(dt) \o <<"T">> \o Pad2(dt.H) \o <<":">> \o Pad2(dt.M)
    \o <<":">> \o Pad2(dt.S)

(***************************************************************************)
(* date_utils.py                                                           *)
(***************************************************************************)
offset_iso_date(date_str, n) ==
  LET Format(new_dt) ==
        IF ~new_dt.ok THEN OverflowError ELSE StrftimeDate(new_dt)
      Offset(dt) == IF ~dt.ok THEN ValueError ELSE Format(AddDays(dt, n))
  IN  Offset(Strptime(date_str, FALSE))

offset_iso_timestamp(ts_str, n) ==
  LET Format(new_dt) ==
        IF ~new_dt.ok THEN OverflowError ELSE StrftimeTimestamp(new_dt)
      Offset(dt) == IF ~dt.ok THEN ValueError ELSE Format(AddDays(dt, n))
  IN  Offset(Strptime(ts_str, TRUE))

(***************************************************************************)
(* Regular expressions of date_utils.py, as re.sub runs them               *)
(***************************************************************************)
\* \b between text[i-1] and text[i]
WordBoundary(t, i) ==
  (i > 1 /\ i - 1 <= Len(t) /\ IsWordChar(t[i - 1]))
    # (i >= 1 /\ i <= Len(t) /\ IsWordChar(t[i]))

\* \d{4}-\d{2}-\d{2} at position i
IsoDateShapeAt(t, i) ==
  /\ i + 9 <= Len(t)
  /\ AllDigits(t, i, i + 3) /\ t[i + 4] = "-"
  /\ AllDigits(t, i + 5, i + 6) /\ t[i + 7] = "-"
  /\ AllDigits(t, i + 8, i + 9)

\* \d{2}:\d{2}:\d{2} at position i
TimeShapeAt(t, i) ==
  /\ i + 7 <= Len(t)
  /\ AllDigits(t, i, i + 1) /\ t[i + 2] = ":"
  /\ AllDigits(t, i + 3, i + 4) /\ t[i + 5] = ":"
  /\ AllDigits(t, i + 6, i + 7)

\* iso_ts_pattern: the length of its match at i, 0 when it does not match
IsoTsMatchLen(t, i) ==
  IF /\ IsoDateShapeAt(t, i)
     /\ WordBoundary(t, i)
     /\ LitAt(t, i + 10, "T")
     /\ TimeShapeAt(t, i + 11)
     /\ WordBoundary(t, i + 19)
    THEN 19 ELSE 0

\* iso_date_pattern: the length of its match at i, 0 when it does not match
IsoDateMatchLen(t, i) ==
  IF IsoDateShapeAt(t, i) /\ WordBoundary(t, i) /\ WordBoundary(t, i + 10)
    THEN 10 ELSE 0

\* all_months: MONTH_NAMES + MONTH_NAMES_SHORT, in the alternation's order
AllMonths == MONTH_NAMES \o MONTH_NAMES_SHORT

\* the letters a month name starts with
MonthInitials == {AllMonths[k][1] : k \in 1..Len(AllMonths)}

StartsWithAt(t, i, w) ==
  /\ i + Len(w) - 1 <= Len(t)
  /\ t[i] = w[1]
  /\ SubSeq(t, i, i + Len(w) - 1) = w

RECURSIVE SkipSpaces(_, _)
\* where a greedy \s* starting at i ends
SkipSpaces(t, i) ==
  IF i <= Len(t) /\ IsSpace(t[i]) THEN SkipSpaces(t, i + 1) ELSE i

NoMatch == [len |-> 0, month |-> <<>>, day |-> <<>>, year |-> <<>>]

\* What follows the day, which ends before q:  (?:\s+(\d{4}))?\b
\* The optional year is tried first; when it or the \b after it fails the
\* group is skipped and \b must hold right after the day.
TextDateTail(t, i, name, p, q) ==
  LET r == SkipSpaces(t, q)
  IN  IF r > q /\ AllDigits(t, r, r + 3) /\ WordBoundary(t, r + 4)
        THEN [len |-> r + 4 - i, month |-> name, day |-> SubSeq(t, p, q - 1),
              year |-> SubSeq(t, r, r + 3)]
      ELSE IF WordBoundary(t, q)
        THEN [len |-> q - i, month |-> name, day |-> SubSeq(t, p, q - 1),
              year |-> <<>>]
      ELSE NoMatch

\* The text-date pattern at i:
\*   \b(all_months)\s+(\d{1,2})(?:\s+(\d{4}))?\b
\* with its groups; year is <<>> for an unmatched group 3 (None).
TextDateMatch(t, i) ==
  LET cands == {k \in 1..Len(AllMonths) :
                  /\ StartsWithAt(t, i, AllMonths[k])
                  /\ i + Len(AllMonths[k]) <= Len(t)
                  /\ IsSpace(t[i + Len(AllMonths[k])])}
  IN  IF t[i] \notin MonthInitials \/ ~WordBoundary(t, i) \/ cands = {}
        THEN NoMatch
      ELSE
      LET k    == CHOOSE c \in cands : \A c2 \in cands : c <= c2
          name == AllMonths[k]
          p    == SkipSpaces(t, i + Len(name))
      IN  IF ~AllDigits(t, p, p) THEN NoMatch
          ELSE
          LET two == IF AllDigits(t, p, p + 1)
                       THEN TextDateTail(t, i, name, p, p + 2)
                       ELSE NoMatch
          IN  IF two.len > 0 THEN two
              ELSE TextDateTail(t, i, name, p, p + 1)

\* _offset_text_date_match with the date always resolved in the base year
_offset_text_date_match_BaseYearOnly(whole, m, n, by) ==
  LET day       == IntOf(m.day)
      has_year  == m.year # <<>>
      month_num == MONTH_TO_NUM(m.month)
  IN  IF month_num = 0 THEN whole
      ELSE IF by < 1 \/ by > 9999 \/ day < 1
              \/ day > DaysInMonth(by, month_num)
        THEN whole
      ELSE
      LET Format(new_dt) ==
            IF ~new_dt.ok THEN OverflowError
            ELSE IF has_year
              THEN NUM_TO_MONTH(new_dt.m) \o <<" ">> \o StrOf(new_dt.d)
                     \o <<" ">> \o StrOf(new_dt.y)
              ELSE NUM_TO_MONTH(new_dt.m) \o <<" ">> \o StrOf(new_dt.d)
      IN  Format(AddDays([ok |-> TRUE, y |-> by, m |-> month_num,
                          d |-> day, H |-> 0, M |-> 0, S |-> 0], n))

\* _offset_text_date_match(match, days, base_year); whole is match.group(0)
_offset_text_date_match(whole, m, n, by) ==
  LET day       == IntOf(m.day)
      has_year  == m.year # <<>>
      year      == IF has_year THEN IntOf(m.year) ELSE by
      month_num == MONTH_TO_NUM(m.month)
  IN  IF month_num = 0 THEN whole
      ELSE IF year < 1 \/ year > 9999 \/ day < 1
              \/ day > DaysInMonth(year, month_num)
        THEN whole    \* datetime() raised ValueError
      ELSE
      LET Format(new_dt) ==
            IF ~new_dt.ok THEN OverflowError
            ELSE IF has_year
              THEN NUM_TO_MONTH(new_dt.m) \o <<" ">> \o StrOf(new_dt.d)
                     \o <<" ">> \o StrOf(new_dt.y)
              ELSE NUM_TO_MONTH(new_dt.m) \o <<" ">> \o StrOf(new_dt.d)
      IN  Format(AddDays([ok |-> TRUE, y |-> year, m |-> month_num,
                          d |-> day, H |-> 0, M |-> 0, S |-> 0], n))

(***************************************************************************)
(* generate_dataset.py: transform_policy                                   *)
(***************************************************************************)
CurrentTimeIs ==
  <<"T","h","e"," ","c","u","r","r","e","n","t"," ","t","i","m","e"," ",
    "i","s"," ">>

Est == <<" ","E","S","T",".">>

\* "The current time is " date " " time at i
CurrentTimeShapeAt(t, i) ==
  /\ StartsWithAt(t, i, CurrentTimeIs)
  /\ IsoDateShapeAt(t, i + 20)
  /\ LitAt(t, i + 30, " ")
  /\ TimeShapeAt(t, i + 31)

\* the pattern of transform_policy: its match length at i, 0 for no match
PolicyMatchLen(t, i) ==
  IF CurrentTimeShapeAt(t, i) /\ StartsWithAt(t, i + 39, Est)
    THEN 44 ELSE 0

\* split("T")[0] and what follows the first "T" up to the next one
RECURSIVE FindChar(_, _, _)
FindChar(t, i, c) ==
  IF i > Len(t) \/ t[i] = c THEN i ELSE FindChar(t, i + 1, c)

BeforeT(ts) == SubSeq(ts, 1, FindChar(ts, 1, "T") - 1)

AfterT(ts) ==
  SubSeq(ts, FindChar(ts, 1, "T") + 1,
         FindChar(ts, FindChar(ts, 1, "T") + 1, "T") - 1)

\* replace_datetime(match) for the match of length 44 at i
replace_datetime(t, i, n) ==
  LET Format(new_ts) ==
        IF IsException(new_ts) THEN new_ts
        ELSE CurrentTimeIs \o BeforeT(new_ts) \o <<" ">> \o AfterT(new_ts)
               \o Est
  IN  Format(offset_iso_timestamp(
               SubSeq(t, i + 20, i + 29) \o <<"T">>
                 \o SubSeq(t, i + 31, i + 38), n))

\* The match of pattern `pat` at i: its length (0: no match) and, for it,
\* what the pattern's replacement function returns
ReMatchLen(pat, t, i) ==
  CASE pat = "iso_ts"   -> IsoTsMatchLen(t, i)
    [] pat = "iso_date" -> IsoDateMatchLen(t, i)
    [] pat = "text"     -> TextDateMatch(t, i).len
    [] pat = "policy"   -> PolicyMatchLen(t, i)

ReReplace(pat, t, i, len, n, by) ==
  CASE pat = "iso_ts"   -> offset_iso_timestamp(SubSeq(t, i, i + len - 1), n)
    [] pat = "iso_date" -> offset_iso_date(SubSeq(t, i, i + len - 1), n)
    [] pat = "text"     ->
         _offset_text_date_match(SubSeq(t, i, i + len - 1),
                                 TextDateMatch(t, i), n, by)
    [] pat = "policy"   -> replace_datetime(t, i, n)

RECURSIVE ReSub(_, _, _, _, _, _, _)
\* One match of re.sub, of `len` characters at position i, for which the
\* replacement function returns `rep`
ReSubMatch(pat, t, i, n, by, acc, from, len, rep) ==
  IF IsException(rep) THEN rep
  ELSE ReSub(pat, t, i + len, n, by,
             acc \o SubSeq(t, from, i - 1) \o rep, i + len)

\* One step of re.sub at position i, where the pattern matches `len`
\* characters (0: none)
ReSubStep(pat, t, i, n, by, acc, from, len) ==
  IF len = 0 THEN ReSub(pat, t, i + 1, n, by, acc, from)
  ELSE ReSubMatch(pat, t, i, n, by, acc, from, len,
                  ReReplace(pat, t, i, len, n, by))

\* re.sub(pattern, replace, text) from position i on; `acc` is the output
\* for the text before `from`, and the text from there to i matched
\* nothing and is copied as it is.  Matches are taken left to right, the
\* scan resumes after each match, and an exception of a replacement
\* function ends the call.
ReSub(pat, t, i, n, by, acc, from) ==
  IF i > Len(t) THEN acc \o SubSeq(t, from, Len(t))
  ELSE ReSubStep(pat, t, i, n, by, acc, from, ReMatchLen(pat, t, i))

offset_text_dates(t, n, by) == ReSub("text", t, 1, n, by, <<>>, 1)

offset_all_dates_in_text(t, n, by) ==
  LET TextDates(t2) ==
        IF IsException(t2) THEN t2 ELSE offset_text_dates(t2, n, by)
      IsoDates(t1) ==
        IF IsException(t1) THEN t1
        ELSE TextDates(ReSub("iso_date", t1, 1, n, by, <<>>, 1))
  IN  IsoDates(ReSub("iso_ts", t, 1, n, by, <<>>, 1))

(***************************************************************************)
(* config.py                                                               *)
(***************************************************************************)
DEFAULT_OFFSETS == {-365, 0, 365, 1825}

AIRLINE_BASE_YEAR == 2024

AIRLINE_CURRENT_DATETIME ==
  <<"2","0","2","4","-","0","5","-","1","5","T","1","5",":","0","0",":",
    "0","0">>

\* "airline"
Airline == <<"a","i","r","l","i","n","e">>

\* "airline_offset_"
AirlineOffset == Airline \o <<"_","o","f","f","s","e","t","_">>

\* abs(offset_days)
Abs(n) == IF n < 0 THEN 0 - n ELSE n

\* the name with the sign of get_results_dir: "p" for the offset 0 too
get_offset_domain_name_SignOfZero(offset_days) ==
  AirlineOffset \o <<IF offset_days >= 0 THEN "p" ELSE "n">>
    \o StrOf(Abs(offset_days)) \o <<"d">>

\* get_offset_domain_name(offset_days)
\* a name without the letter of the sign
get_offset_domain_name_NoSign(offset_days) ==
  IF offset_days = 0 THEN Airline
  ELSE AirlineOffset \o StrOf(Abs(offset_days)) \o <<"d">>

get_offset_domain_name(offset_days) ==
  IF offset_days = 0 THEN Airline
  ELSE AirlineOffset \o <<IF offset_days > 0 THEN "p" ELSE "n">>
         \o StrOf(Abs(offset_days)) \o <<"d">>

\* a path is the sequence of its parts; DATA_DIR and SRC_DIR are their
\* first part
OFFSET_DATA_DIR == <<"DATA_DIR", "tau2", "domains">>

SRC_DIR == <<"SRC_DIR">>

\* get_offset_data_dir(offset_days)
get_offset_data_dir(offset_days) ==
  Append(OFFSET_DATA_DIR, get_offset_domain_name(offset_days))

\* get_offset_src_dir(offset_days)
get_offset_src_dir(offset_days) ==
  Append(SRC_DIR \o <<"tau2", "domains">>,
         get_offset_domain_name(offset_days))

(***************************************************************************)
(* JSON data: a dict is the sequence of its <<key, value>> items in        *)
(* insertion order; None and the empty string are the empty sequence       *)
(***************************************************************************)
None == <<>>

DictKeys(d) == [i \in 1..Len(d) |-> d[i][1]]

DictHas(d, k) == \E i \in 1..Len(d) : d[i][1] = k

DictGet(d, k) == d[CHOOSE i \in 1..Len(d) : d[i][1] = k][2]

\* d[k] = v: an existing key keeps its place, a new one goes last
DictSet(d, k, v) ==
  IF DictHas(d, k)
    THEN [i \in 1..Len(d) |-> IF d[i][1] = k THEN <<k, v>> ELSE d[i]]
    ELSE Append(d, <<k, v>>)

\* del d[k]
DictDel(d, k) == SelectSeq(d, LAMBDA item : item[1] # k)

\* the first exception among the results rs of the calls made in turn,
\* None when none raised
FirstRaised(rs) ==
  LET raised == SelectSeq(rs, IsException)
  IN  IF raised = <<>> THEN None ELSE raised[1]

RECURSIVE Flatten(_)
\* the sequences of ss, joined
Flatten(ss) == IF ss = <<>> THEN <<>> ELSE Head(ss) \o Flatten(Tail(ss))

\* fn(value, days) for a populated field, the field as it is otherwise
OffsetDate(value, n) == IF value = None THEN value ELSE offset_iso_date(value, n)

OffsetTimestamp(value, n) ==
  IF value = None THEN value ELSE offset_iso_timestamp(value, n)

(***************************************************************************)
(* generate_dataset.py: transform_db                                       *)
(***************************************************************************)
timestamp_fields ==
  <<"actual_departure_time_est", "actual_arrival_time_est",
    "estimated_departure_time_est", "estimated_arrival_time_est">>

\* the status handed back as it came: no timestamp field is shifted
_transform_flight_status_Unshifted(status, n) == status

\* _transform_flight_status(status, days)
_transform_flight_status(status, n) ==
  [field \in DOMAIN status |->
     IF \E k \in 1..Len(timestamp_fields) : timestamp_fields[k] = field
       THEN OffsetTimestamp(status[field], n)
       ELSE status[field]]

\* the timestamps _transform_flight_status computes, in the order of
\* timestamp_fields
StatusResults(status, n) ==
  [k \in 1..Len(timestamp_fields) |->
     OffsetTimestamp(status[timestamp_fields[k]], n)]

RECURSIVE RebuildDates(_, _, _, _)
\* the loop over flight["dates"].items() from item i on, filling new_dates
RebuildDates(dates, i, n, acc) ==
  IF i > Len(dates) THEN acc
  ELSE RebuildDates(dates, i + 1, n,
         DictSet(acc, offset_iso_date(dates[i][1], n),
                 _transform_flight_status(dates[i][2], n)))

RECURSIVE ShiftDatesInPlace(_, _, _, _)
\* the same loop writing into the mapping it reads: each key is removed
\* and its shifted key set in the mapping itself
ShiftDatesInPlace(dates, i, n, acc) ==
  IF i > Len(dates) THEN acc
  ELSE ShiftDatesInPlace(dates, i + 1, n,
         DictSet(DictDel(acc, dates[i][1]), offset_iso_date(dates[i][1], n),
                 _transform_flight_status(DictGet(acc, dates[i][1]), n)))

\* new_dates built in the mapping being read
new_dates_InPlace(dates, n) == ShiftDatesInPlace(dates, 1, n, dates)

\* new_dates, as transform_db builds it for one flight and substitutes it
new_dates(dates, n) == RebuildDates(dates, 1, n, <<>>)

ShiftDobs(passengers, n) ==
  [i \in 1..Len(passengers) |->
     [passengers[i] EXCEPT !.dob = OffsetDate(@, n)]]

ShiftUser(user, n) ==
  [user EXCEPT !.dob = OffsetDate(@, n), !.passengers = ShiftDobs(@, n)]

ShiftReservation(reservation, n) ==
  [reservation EXCEPT
     !.created_at = OffsetTimestamp(@, n),
     !.flights = [i \in 1..Len(@) |-> [@[i] EXCEPT !.date = OffsetDate(@, n)]],
     !.passengers = ShiftDobs(@, n)]

\* transform_db(db_data, days) when no call in it raises
transform_db(db_data, n) ==
  [users |->
     [i \in 1..Len(db_data.users) |->
        <<db_data.users[i][1], ShiftUser(db_data.users[i][2], n)>>],
   flights |->
     [i \in 1..Len(db_data.flights) |->
        <<db_data.flights[i][1],
          [db_data.flights[i][2] EXCEPT !.dates = new_dates(@, n)]>>],
   reservations |->
     [i \in 1..Len(db_data.reservations) |->
        <<db_data.reservations[i][1],
          ShiftReservation(db_data.reservations[i][2], n)>>]]

DobResults(passengers, n) ==
  [i \in 1..Len(passengers) |-> OffsetDate(passengers[i].dob, n)]

DatesResults(dates, n) ==
  Flatten([i \in 1..Len(dates) |->
             <<offset_iso_date(dates[i][1], n)>>
               \o StatusResults(dates[i][2], n)])

\* what the date functions return to transform_db, in the order it calls
\* them: users, flights, reservations
DbResults(db_data, n) ==
  Flatten([i \in 1..Len(db_data.users) |->
             <<OffsetDate(db_data.users[i][2].dob, n)>>
               \o DobResults(db_data.users[i][2].passengers, n)])
  \o Flatten([i \in 1..Len(db_data.flights) |->
                DatesResults(db_data.flights[i][2].dates, n)])
  \o Flatten([i \in 1..Len(db_data.reservations) |->
                LET r == db_data.reservations[i][2]
                IN  <<OffsetTimestamp(r.created_at, n)>>
                      \o [k \in 1..Len(r.flights) |->
                            OffsetDate(r.flights[k].date, n)]
                      \o DobResults(r.passengers, n)])

\* the exception transform_db ends with, None when it returns
transform_db_raises(db_data, n) == FirstRaised(DbResults(db_data, n))

(***************************************************************************)
(* generate_dataset.py: transform_tasks                                    *)
(* A JSON value of an action's arguments is [t |-> type, v |-> value] with *)
(* t one of "str", "num", "list", "dict".                                  *)
(***************************************************************************)
Str(chars) == [t |-> "str", v |-> chars]

Num(n) == [t |-> "num", v |-> n]

List(items) == [t |-> "list", v |-> items]

Dict(items) == [t |-> "dict", v |-> items]

\* re.match(r"^\d{4}-\d{2}-\d{2}$", value): $ also matches before a final
\* newline
IsIsoDateString(value) ==
  /\ IsoDateShapeAt(value, 1)
  /\ Len(value) = 10 \/ (Len(value) = 11 /\ value[11] = "\n")

\* re.match(r"^\d{4}-\d{2}-\d{2}T\d{2}:\d{2}:\d{2}$", value)
IsIsoTimestampString(value) ==
  /\ IsoDateShapeAt(value, 1) /\ LitAt(value, 11, "T")
  /\ TimeShapeAt(value, 12)
  /\ Len(value) = 19 \/ (Len(value) = 20 /\ value[20] = "\n")

RECURSIVE _transform_action_arguments(_, _)
\* one item of a list value: a dict is descended into, a string is
\* shifted when it is an ISO date, anything else is left
TransformListItem(item, n) ==
  CASE item.t = "dict" -> Dict(_transform_action_arguments(item.v, n))
    [] item.t = "str" /\ IsIsoDateString(item.v) ->
         Str(offset_iso_date(item.v, n))
    [] OTHER -> item

\* one value of the arguments dict
TransformArgument(value, n) ==
  CASE value.t = "str" /\ IsIsoDateString(value.v) ->
         Str(offset_iso_date(value.v, n))
    [] value.t = "str" /\ IsIsoTimestampString(value.v) ->
         Str(offset_iso_timestamp(value.v, n))
    [] value.t = "list" ->
         List([i \in 1..Len(value.v) |-> TransformListItem(value.v[i], n)])
    [] value.t = "dict" -> Dict(_transform_action_arguments(value.v, n))
    [] OTHER -> value

\* _transform_action_arguments(arguments, days): the arguments after the
\* call, which changes them in place
_transform_action_arguments(arguments, n) ==
  [i \in 1..Len(arguments) |->
     <<arguments[i][1], TransformArgument(arguments[i][2], n)>>]

RECURSIVE StringsOfValue(_)
\* the strings of a JSON value, in order
StringsOfValue(value) ==
  CASE value.t = "str" -> <<value.v>>
    [] value.t = "list" ->
         Flatten([i \in 1..Len(value.v) |-> StringsOfValue(value.v[i])])
    [] value.t = "dict" ->
         Flatten([i \in 1..Len(value.v) |-> StringsOfValue(value.v[i][2])])
    [] OTHER -> <<>>

\* offset_all_dates_in_text(text, days, AIRLINE_BASE_YEAR) for a populated
\* text field
OffsetText(value, n) ==
  IF value = None THEN value
  ELSE offset_all_dates_in_text(value, n, AIRLINE_BASE_YEAR)

\* The texts of one task that transform_tasks hands to
\* offset_all_dates_in_text, in the order it does: the four instruction
\* fields, the nl_assertions, the communicate_info values (None for one
\* that is no string), purpose and notes.
TaskTexts(task) ==
  <<task.instructions.task_instructions, task.instructions.reason_for_call,
    task.instructions.known_info, task.instructions.unknown_info>>
  \o task.nl_assertions
  \o [i \in 1..Len(task.communicate_info) |->
        IF task.communicate_info[i].t = "str"
          THEN task.communicate_info[i].v ELSE None]
  \o <<task.purpose, task.notes>>

\* what offset_all_dates_in_text returns for each of them
OffsetTexts(texts, n) == [i \in 1..Len(texts) |-> OffsetText(texts[i], n)]

\* the arguments of each action after _transform_action_arguments
OffsetArguments(actions, n) ==
  [i \in 1..Len(actions) |->
     _transform_action_arguments(actions[i].arguments, n)]

\* the task with its texts and its actions' arguments assigned
AssignTask(task, texts, arguments) ==
  LET na == Len(task.nl_assertions)
      nc == Len(task.communicate_info)
  IN  [task EXCEPT
         !.instructions =
            [@ EXCEPT !.task_instructions = texts[1],
                      !.reason_for_call = texts[2],
                      !.known_info = texts[3],
                      !.unknown_info = texts[4]],
         !.actions =
            [i \in 1..Len(@) |-> [@[i] EXCEPT !.arguments = arguments[i]]],
         !.nl_assertions = SubSeq(texts, 5, 4 + na),
         !.communicate_info =
            [i \in 1..Len(@) |->
               IF @[i].t = "str" THEN Str(texts[4 + na + i]) ELSE @[i]],
         !.purpose = texts[4 + na + nc + 1],
         !.notes = texts[4 + na + nc + 2]]

\* one task of transform_tasks
TransformTask(task, n) ==
  AssignTask(task, OffsetTexts(TaskTexts(task), n),
             OffsetArguments(task.actions, n))

\* the results in the order of the calls: the instructions come before
\* the actions, everything else after them
ResultsInOrder(texts, arguments) ==
  SubSeq(texts, 1, 4)
  \o Flatten([i \in 1..Len(arguments) |->
                StringsOfValue(Dict(arguments[i]))])
  \o SubSeq(texts, 5, Len(texts))

\* transform_tasks(tasks_data, days) when no call in it raises
transform_tasks(tasks_data, n) ==
  [i \in 1..Len(tasks_data) |-> TransformTask(tasks_data[i], n)]

\* what the date functions return to transform_tasks for one task
TaskResults(task, n) ==
  ResultsInOrder(OffsetTexts(TaskTexts(task), n),
                 OffsetArguments(task.actions, n))

\* the exception transform_tasks ends with, None when it returns
transform_tasks_raises(tasks_data, n) ==
  FirstRaised(Flatten([i \in 1..Len(tasks_data) |->
                         TaskResults(tasks_data[i], n)]))

\* transform_policy(policy_text, days)
transform_policy(policy_text, n) == ReSub("policy", policy_text, 1, n, 0, <<>>, 1)

(***************************************************************************)
(* generate_dataset.py on objects: what json.load returns is a tree of     *)
(* dict and list objects, each a cell of the heap; a value is a string, a  *)
(* number or the reference of a cell.  A dict cell holds its <<key, value>>*)
(* items in insertion order, a list cell its values.  The keys the code    *)
(* names are strings, the keys read from the data are texts.               *)
(***************************************************************************)
Ref(a) == [t |-> "ref", v |-> a]

\* the items f[1], f[2], ... as a list
ListOf(f) == f \o <<>>

RECURSIVE Read(_, _)
\* the JSON value a heap value stands for
Read(cells, val) ==
  IF val.t # "ref" THEN val
  ELSE IF cells[val.v].kind = "dict"
    THEN Dict(ListOf([i \in 1..Len(cells[val.v].items) |->
                        <<cells[val.v].items[i][1],
                          Read(cells, cells[val.v].items[i][2])>>]))
  ELSE List(ListOf([i \in 1..Len(cells[val.v].items) |->
                      Read(cells, cells[val.v].items[i])]))

RECURSIVE Reach(_, _)
\* the cells a heap value leads to
Reach(cells, val) ==
  IF val.t # "ref" THEN {}
  ELSE {val.v} \cup
       UNION {Reach(cells, IF cells[val.v].kind = "dict"
                             THEN cells[val.v].items[i][2]
                             ELSE cells[val.v].items[i]) :
              i \in 1..Len(cells[val.v].items)}

\* value i of a dict or list
Child(tree, i) == IF tree.t = "dict" THEN tree.v[i][2] ELSE tree.v[i]

IsLeaf(tree) == tree.t \notin {"dict", "list"}

RECURSIVE SumOf(_)
SumOf(ns) == IF ns = <<>> THEN 0 ELSE Head(ns) + SumOf(Tail(ns))

RECURSIVE Size(_)
\* the number of dicts and lists of a JSON value
Size(tree) ==
  IF IsLeaf(tree) THEN 0
  ELSE 1 + SumOf([i \in 1..Len(tree.v) |-> Size(Child(tree, i))])

\* the number of cells before value i of a dict or list built after
\* `base` cells
StartOf(tree, base, i) ==
  base + SumOf([j \in 1..(i - 1) |-> Size(Child(tree, j))])

\* value i of the new dict or list
NewValue(tree, base, i) ==
  IF IsLeaf(Child(tree, i)) THEN Child(tree, i)
  ELSE Ref(StartOf(tree, base, i) + Size(Child(tree, i)))

RECURSIVE NewCells(_, _)
\* the cells of the JSON value `tree` built after `base` cells: those of
\* each of its values in turn, then its own
NewCells(tree, base) ==
  IF IsLeaf(tree) THEN <<>>
  ELSE Flatten([i \in 1..Len(tree.v) |->
                  NewCells(Child(tree, i), StartOf(tree, base, i))])
       \o <<[kind |-> tree.t,
             items |->
               ListOf([i \in 1..Len(tree.v) |->
                         IF tree.t = "dict"
                           THEN <<tree.v[i][1], NewValue(tree, base, i)>>
                           ELSE NewValue(tree, base, i)])]>>

\* the JSON value `tree` built of new cells: the heap after, and its value
Alloc(cells, tree) ==
  [cells |-> cells \o NewCells(tree, Len(cells)),
   val |-> IF IsLeaf(tree) THEN tree ELSE Ref(Len(cells) + Size(tree))]

\* copy.copy in the place of deepcopy: one new cell holding the values of
\* the old one
deepcopy_Shallow(cells, val) ==
  IF val.t # "ref" THEN [cells |-> cells, val |-> val]
  ELSE [cells |-> Append(cells, cells[val.v]), val |-> Ref(Len(cells) + 1)]

\* deepcopy(x) of a tree: every dict and list below x anew
deepcopy(cells, val) == Alloc(cells, Read(cells, val))

\* d[key] of the dict cell a
Item(cells, a, key) == DictGet(cells[a].items, key)

\* key in d
HasItem(cells, a, key) == DictHas(cells[a].items, key)

\* bool(value)
Truthy(cells, val) ==
  CASE val.t = "ref" -> cells[val.v].items # <<>>
    [] val.t = "num" -> val.v # 0
    [] OTHER -> val.v # <<>>

\* d[key] = value
SetItem(cells, a, key, val) ==
  [cells EXCEPT ![a].items = DictSet(@, key, val)]

\* l[i] = value
SetIndex(cells, a, i, val) == [cells EXCEPT ![a].items[i] = val]

\* the values of a dict or list cell, in order
Values(cells, a) ==
  ListOf([i \in 1..Len(cells[a].items) |->
            IF cells[a].kind = "dict" THEN cells[a].items[i][2]
            ELSE cells[a].items[i]])

\* key in d and d[key]
Present(cells, a, key) ==
  HasItem(cells, a, key) /\ Truthy(cells, Item(cells, a, key))

\* if key in d and d[key]: d[key] = offset_iso_date(d[key], days)
OffsetDateItem(cells, a, key, n) ==
  IF Present(cells, a, key)
    THEN SetItem(cells, a, key, Str(offset_iso_date(Item(cells, a, key).v, n)))
    ELSE cells

\* if key in d and d[key]: d[key] = offset_iso_timestamp(d[key], days)
OffsetTimestampItem(cells, a, key, n) ==
  IF Present(cells, a, key)
    THEN SetItem(cells, a, key,
                 Str(offset_iso_timestamp(Item(cells, a, key).v, n)))
    ELSE cells

RECURSIVE OffsetDateOfEach(_, _, _, _)
\* for x in xs: if key in x and x[key]: the date shifted
OffsetDateOfEach(cells, xs, key, n) ==
  IF xs = <<>> THEN cells
  ELSE OffsetDateOfEach(OffsetDateItem(cells, Head(xs).v, key, n), Tail(xs),
                        key, n)

\* if "passengers" in d: for passenger in d["passengers"]: the dob shifted
OffsetPassengers(cells, a, n) ==
  IF HasItem(cells, a, "passengers")
    THEN OffsetDateOfEach(cells, Values(cells, Item(cells, a, "passengers").v),
                          "dob", n)
    ELSE cells

RECURSIVE OffsetTimestampItems(_, _, _, _)
\* for field in timestamp_fields, over the fields left
OffsetTimestampItems(cells, a, fields, n) ==
  IF fields = <<>> THEN cells
  ELSE OffsetTimestampItems(OffsetTimestampItem(cells, a, Head(fields), n), a,
                            Tail(fields), n)

\* _transform_flight_status(status, days): the heap after, and the copy
_transform_flight_status_heap(cells, status, n) ==
  CHOOSE returned \in
    {[cells |-> OffsetTimestampItems(result.cells, result.val.v,
                                     timestamp_fields, n),
      val |-> result.val] : result \in {deepcopy(cells, status)}} : TRUE

\* new_dates[new_date_key] = new_status, for one item of flight["dates"]
PutDate(cells, dates, item, n) ==
  CHOOSE after \in
    {SetItem(new_status.cells, dates, offset_iso_date(item[1], n),
             new_status.val) :
       new_status \in {_transform_flight_status_heap(cells, item[2], n)}} :
    TRUE

RECURSIVE PutDates(_, _, _, _)
\* for date_key, status in flight["dates"].items(), over the items left
PutDates(cells, dates, items, n) ==
  IF items = <<>> THEN cells
  ELSE PutDates(PutDate(cells, dates, Head(items), n), dates, Tail(items), n)

\* one flight of transform_db: new_dates = {} is the cell after the last
OffsetFlight(cells, a, n) ==
  IF HasItem(cells, a, "dates")
    THEN SetItem(
           PutDates(Append(cells, [kind |-> "dict", items |-> <<>>]),
                    Len(cells) + 1, cells[Item(cells, a, "dates").v].items, n),
           a, "dates", Ref(Len(cells) + 1))
    ELSE cells

\* the flights of one reservation
OffsetReservationFlights(cells, a, n) ==
  IF HasItem(cells, a, "flights")
    THEN OffsetDateOfEach(cells, Values(cells, Item(cells, a, "flights").v),
                          "date", n)
    ELSE cells

\* one reservation of transform_db
OffsetReservation(cells, a, n) ==
  OffsetPassengers(
    OffsetReservationFlights(
      OffsetTimestampItem(cells, a, "created_at", n), a, n),
    a, n)

\* one user of transform_db
OffsetUser(cells, a, n) ==
  OffsetPassengers(OffsetDateItem(cells, a, "dob", n), a, n)

RECURSIVE OffsetEach(_, _, _, _)
\* for _, x in result[key].items(), over the values left
OffsetEach(cells, key, xs, n) ==
  IF xs = <<>> THEN cells
  ELSE OffsetEach(
         CASE key = "users" -> OffsetUser(cells, Head(xs).v, n)
           [] key = "flights" -> OffsetFlight(cells, Head(xs).v, n)
           [] key = "reservations" -> OffsetReservation(cells, Head(xs).v, n),
         key, Tail(xs), n)

RECURSIVE OffsetSections(_, _, _, _)
\* if key in result: the loop over result[key], for each key in turn
OffsetSections(cells, a, keys, n) ==
  IF keys = <<>> THEN cells
  ELSE OffsetSections(
         IF HasItem(cells, a, Head(keys))
           THEN OffsetEach(cells, Head(keys),
                           Values(cells, Item(cells, a, Head(keys)).v), n)
           ELSE cells,
         a, Tail(keys), n)

\* transform_db(db_data, days) when no call in it raises: the heap after,
\* and the value returned
transform_db_heap(cells, db_data, n) ==
  CHOOSE returned \in
    {[cells |-> OffsetSections(result.cells, result.val.v,
                               <<"users", "flights", "reservations">>, n),
      val |-> result.val] : result \in {deepcopy(cells, db_data)}} : TRUE

RECURSIVE _transform_action_arguments_heap(_, _, _)
RECURSIVE OffsetArgumentsFrom(_, _, _, _)
RECURSIVE OffsetListFrom(_, _, _, _)
\* value[i] of a list value of the arguments
OffsetListItem(cells, a, i, n) ==
  LET item == cells[a].items[i]
  IN  CASE item.t = "ref" /\ cells[item.v].kind = "dict" ->
             _transform_action_arguments_heap(cells, item.v, n)
        [] item.t = "str" /\ IsIsoDateString(item.v) ->
             SetIndex(cells, a, i, Str(offset_iso_date(item.v, n)))
        [] OTHER -> cells

\* for i, item in enumerate(value), from index i on
OffsetListFrom(cells, a, i, n) ==
  IF i > Len(cells[a].items) THEN cells
  ELSE OffsetListFrom(OffsetListItem(cells, a, i, n), a, i + 1, n)

\* arguments[key] for one item of arguments.items()
OffsetArgument(cells, a, item, n) ==
  CASE item[2].t = "str" /\ IsIsoDateString(item[2].v) ->
         SetItem(cells, a, item[1], Str(offset_iso_date(item[2].v, n)))
    [] item[2].t = "str" /\ IsIsoTimestampString(item[2].v) ->
         SetItem(cells, a, item[1], Str(offset_iso_timestamp(item[2].v, n)))
    [] item[2].t = "ref" /\ cells[item[2].v].kind = "list" ->
         OffsetListFrom(cells, item[2].v, 1, n)
    [] item[2].t = "ref" /\ cells[item[2].v].kind = "dict" ->
         _transform_action_arguments_heap(cells, item[2].v, n)
    [] OTHER -> cells

\* for key, value in arguments.items(), over the items left
OffsetArgumentsFrom(cells, a, items, n) ==
  IF items = <<>> THEN cells
  ELSE OffsetArgumentsFrom(OffsetArgument(cells, a, Head(items), n), a,
                           Tail(items), n)

\* _transform_action_arguments(arguments, days), which returns nothing
_transform_action_arguments_heap(cells, a, n) ==
  OffsetArgumentsFrom(cells, a, cells[a].items, n)

RECURSIVE OffsetTextItems(_, _, _, _)
\* for each key in turn: if key in d and d[key]:
\*   d[key] = offset_all_dates_in_text(d[key], days, AIRLINE_BASE_YEAR)
OffsetTextItems(cells, a, keys, n) ==
  IF keys = <<>> THEN cells
  ELSE OffsetTextItems(
         IF Present(cells, a, Head(keys))
           THEN SetItem(cells, a, Head(keys),
                        Str(OffsetText(Item(cells, a, Head(keys)).v, n)))
           ELSE cells,
         a, Tail(keys), n)

\* task["user_scenario"]["instructions"] of one task
OffsetScenario(cells, a, n) ==
  IF /\ Present(cells, a, "user_scenario")
     /\ Present(cells, Item(cells, a, "user_scenario").v, "instructions")
    THEN OffsetTextItems(
           cells,
           Item(cells, Item(cells, a, "user_scenario").v, "instructions").v,
           <<"task_instructions", "reason_for_call", "known_info",
             "unknown_info">>, n)
    ELSE cells

RECURSIVE OffsetActions(_, _, _)
\* for action in criteria["actions"], over the actions left
OffsetActions(cells, actions, n) ==
  IF actions = <<>> THEN cells
  ELSE OffsetActions(
         IF Present(cells, Head(actions).v, "arguments")
           THEN _transform_action_arguments_heap(
                  cells, Item(cells, Head(actions).v, "arguments").v, n)
           ELSE cells,
         Tail(actions), n)

\* criteria["nl_assertions"] = [offset_all_dates_in_text(assertion, ...)
\* for assertion in criteria["nl_assertions"]]: a new list
OffsetAssertions(cells, a, n) ==
  IF Present(cells, a, "nl_assertions")
    THEN SetItem(
           Append(cells,
                  [kind |-> "list",
                   items |->
                     ListOf(
                       [i \in 1..Len(cells[Item(cells, a, "nl_assertions").v]
                                       .items)
                          |-> Str(OffsetText(
                                    cells[Item(cells, a, "nl_assertions").v]
                                      .items[i].v, n))])]),
           a, "nl_assertions", Ref(Len(cells) + 1))
    ELSE cells

RECURSIVE OffsetComms(_, _, _)
\* for comm in criteria["communicate_info"], over those left:
\* if "value" in comm and isinstance(comm["value"], str): the value shifted
OffsetComms(cells, comms, n) ==
  IF comms = <<>> THEN cells
  ELSE OffsetComms(
         IF /\ HasItem(cells, Head(comms).v, "value")
            /\ Item(cells, Head(comms).v, "value").t = "str"
           THEN SetItem(cells, Head(comms).v, "value",
                        Str(OffsetText(Item(cells, Head(comms).v, "value").v,
                                       n)))
           ELSE cells,
         Tail(comms), n)

\* the actions of the criteria
OffsetCriteriaActions(cells, a, n) ==
  IF Present(cells, a, "actions")
    THEN OffsetActions(cells, Values(cells, Item(cells, a, "actions").v), n)
    ELSE cells

\* the communicated values of the criteria
OffsetCriteriaComms(cells, a, n) ==
  IF Present(cells, a, "communicate_info")
    THEN OffsetComms(cells,
                     Values(cells, Item(cells, a, "communicate_info").v), n)
    ELSE cells

\* task["evaluation_criteria"] of one task
OffsetCriteria(cells, a, n) ==
  IF Present(cells, a, "evaluation_criteria")
    THEN OffsetCriteriaComms(
           OffsetAssertions(
             OffsetCriteriaActions(
               cells, Item(cells, a, "evaluation_criteria").v, n),
             Item(cells, a, "evaluation_criteria").v, n),
           Item(cells, a, "evaluation_criteria").v, n)
    ELSE cells

\* task["description"] of one task
OffsetDescription(cells, a, n) ==
  IF Present(cells, a, "description")
    THEN OffsetTextItems(cells, Item(cells, a, "description").v,
                         <<"purpose", "notes">>, n)
    ELSE cells

\* one task of transform_tasks
OffsetTask(cells, a, n) ==
  OffsetDescription(OffsetCriteria(OffsetScenario(cells, a, n), a, n), a, n)

RECURSIVE OffsetTasks(_, _, _)
\* for task in result, over the tasks left
OffsetTasks(cells, tasks_left, n) ==
  IF tasks_left = <<>> THEN cells
  ELSE OffsetTasks(OffsetTask(cells, Head(tasks_left).v, n),
                   Tail(tasks_left), n)

\* transform_tasks(tasks_data, days) when no call in it raises: the heap
\* after, and the value returned
transform_tasks_heap(cells, tasks_data, n) ==
  CHOOSE returned \in
    {[cells |-> OffsetTasks(result.cells,
                            Values(result.cells, result.val.v), n),
      val |-> result.val] : result \in {deepcopy(cells, tasks_data)}} : TRUE

\* The JSON value of db.json and tasks.json
StatusJson(status) ==
  Dict(<< <<"status", Str(status.status)>>,
          <<"available_seats", Num(status.available_seats)>>,
          <<"actual_departure_time_est",
            Str(status.actual_departure_time_est)>>,
          <<"actual_arrival_time_est", Str(status.actual_arrival_time_est)>>,
          <<"estimated_departure_time_est",
            Str(status.estimated_departure_time_est)>>,
          <<"estimated_arrival_time_est",
            Str(status.estimated_arrival_time_est)>> >>)

PassengersJson(passengers) ==
  List([i \in 1..Len(passengers) |->
          Dict(<< <<"dob", Str(passengers[i].dob)>> >>)])

DbJson(db_data) ==
  Dict(<<
    <<"users",
      Dict([i \in 1..Len(db_data.users) |->
              <<db_data.users[i][1],
                Dict(<< <<"dob", Str(db_data.users[i][2].dob)>>,
                        <<"passengers",
                          PassengersJson(db_data.users[i][2].passengers)>> >>)>>])>>,
    <<"flights",
      Dict([i \in 1..Len(db_data.flights) |->
              <<db_data.flights[i][1],
                Dict(<< <<"dates",
                          Dict([k \in 1..Len(db_data.flights[i][2].dates) |->
                                  <<db_data.flights[i][2].dates[k][1],
                                    StatusJson(db_data.flights[i][2].dates[k][2])>>])>> >>)>>])>>,
    <<"reservations",
      Dict([i \in 1..Len(db_data.reservations) |->
              <<db_data.reservations[i][1],
                Dict(<< <<"created_at",
                          Str(db_data.reservations[i][2].created_at)>>,
                        <<"flights",
                          List([k \in 1..Len(db_data.reservations[i][2].flights) |->
                                  Dict(<< <<"flight_number",
                                            Str(db_data.reservations[i][2].flights[k].flight_number)>>,
                                          <<"date",
                                            Str(db_data.reservations[i][2].flights[k].date)>> >>)])>>,
                        <<"passengers",
                          PassengersJson(db_data.reservations[i][2].passengers)>> >>)>>])>> >>)

TaskJson(task) ==
  Dict(<<
    <<"id", Str(task.id)>>,
    <<"description",
      Dict(<< <<"purpose", Str(task.purpose)>>, <<"notes", Str(task.notes)>> >>)>>,
    <<"user_scenario",
      Dict(<< <<"instructions",
                Dict(<< <<"task_instructions",
                          Str(task.instructions.task_instructions)>>,
                        <<"reason_for_call",
                          Str(task.instructions.reason_for_call)>>,
                        <<"known_info", Str(task.instructions.known_info)>>,
                        <<"unknown_info",
                          Str(task.instructions.unknown_info)>> >>)>> >>)>>,
    <<"evaluation_criteria",
      Dict(<< <<"actions",
                List([i \in 1..Len(task.actions) |->
                        Dict(<< <<"name", Str(task.actions[i].name)>>,
                                <<"arguments",
                                  Dict(task.actions[i].arguments)>> >>)])>>,
              <<"nl_assertions",
                List([i \in 1..Len(task.nl_assertions) |->
                        Str(task.nl_assertions[i])])>>,
              <<"communicate_info",
                List([i \in 1..Len(task.communicate_info) |->
                        Dict(<< <<"value", task.communicate_info[i]>> >>)])>> >>)>> >>)

TasksJson(tasks_data) ==
  List([i \in 1..Len(tasks_data) |-> TaskJson(tasks_data[i])])

(***************************************************************************)
(* validate.py                                                             *)
(***************************************************************************)
\* ValidationResult()
ValidationResult == [passed |-> TRUE, errors |-> <<>>, warnings |-> <<>>]

\* a message: the check that recorded it, the task, user or flight it
\* names, and the value it quotes
Message(check, id, value) == [check |-> check, id |-> id, value |-> value]

add_error(result, message) ==
  [result EXCEPT !.passed = FALSE, !.errors = Append(@, message)]

\* add_warning that marks the result failed as add_error does
add_warning_Failing(result, message) ==
  [result EXCEPT !.passed = FALSE, !.warnings = Append(@, message)]

add_warning(result, message) ==
  [result EXCEPT !.warnings = Append(@, message)]

RECURSIVE AddAll(_, _, _)
\* the messages recorded one after the other, each by add_error when it
\* is fatal and by add_warning otherwise
AddAll(result, messages, i) ==
  IF i > Len(messages) THEN result
  ELSE AddAll(IF messages[i].fatal
                THEN add_error(result, messages[i].message)
                ELSE add_warning(result, messages[i].message),
              messages, i + 1)

Error(check, id, value) ==
  [fatal |-> TRUE, message |-> Message(check, id, value)]

Warning(check, id, value) ==
  [fatal |-> FALSE, message |-> Message(check, id, value)]

\* json.dumps of a string of letters, digits and punctuation that needs
\* no escape
DumpString(chars) == <<"\"">> \o chars \o <<"\"">>

RECURSIVE DumpValue(_)
RECURSIVE DumpItems(_, _, _)
\* the items of a list (isDict false) or dict from item i on, ", " between
DumpItems(items, i, isDict) ==
  IF i > Len(items) THEN <<>>
  ELSE (IF i > 1 THEN <<",", " ">> ELSE <<>>)
         \o (IF isDict
               THEN DumpString(items[i][1]) \o <<":", " ">>
                      \o DumpValue(items[i][2])
               ELSE DumpValue(items[i]))
         \o DumpItems(items, i + 1, isDict)

DumpValue(value) ==
  CASE value.t = "str" -> DumpString(value.v)
    [] value.t = "num" -> StrOf(value.v)
    [] value.t = "list" -> <<"[">> \o DumpItems(value.v, 1, FALSE) \o <<"]">>
    [] value.t = "dict" -> <<"{">> \o DumpItems(value.v, 1, TRUE) \o <<"}">>

\* json.dumps(action["arguments"])
json_dumps(arguments) == DumpValue(Dict(arguments))

\* date_pattern of _validate_flight_dates_exist at i
date_pattern(t, i) ==
  IsoDateShapeAt(t, i) /\ WordBoundary(t, i) /\ WordBoundary(t, i + 10)

RECURSIVE InOrder(_)
\* the numbers of a set, ascending
InOrder(S) ==
  IF S = {} THEN <<>>
  ELSE LET least == CHOOSE x \in S : \A y \in S : x <= y
       IN  <<least>> \o InOrder(S \ {least})

\* group 1 of the matches re.finditer(date_pattern, t) yields.  Two
\* matches cannot overlap (inside a match a digit run of four starts only
\* at its start, and the \b after it forbids a digit there), so the
\* matches are all the positions the pattern matches at, left to right.
FindDates(t) ==
  LET starts == InOrder({i \in 1..Len(t) : date_pattern(t, i)})
  IN  [k \in 1..Len(starts) |-> SubSeq(t, starts[k], starts[k] + 9)]

\* available_dates: the date keys of all flights
available_dates(db_data) ==
  UNION {{db_data.flights[i][2].dates[k][1] :
            k \in 1..Len(db_data.flights[i][2].dates)} :
         i \in 1..Len(db_data.flights)}

\* the errors of _validate_flight_dates_exist for one action
FlightDateErrors(db_data, task, action) ==
  LET found == FindDates(json_dumps(action.arguments))
      missing ==
        SelectSeq(found,
                  LAMBDA date :
                    /\ SubSeq(date, 1, 3) = <<"2", "0", "2">>
                    /\ date \notin available_dates(db_data)
                    /\ IntOf(SubSeq(date, 1, 4)) >= 2020)
  IN  [k \in 1..Len(missing) |->
         Error("Flight date not found in db.json", task.id, missing[k])]

_validate_flight_dates_exist(db_data, tasks_data, result) ==
  AddAll(result,
         Flatten([i \in 1..Len(tasks_data) |->
                    Flatten([a \in 1..Len(tasks_data[i].actions) |->
                               FlightDateErrors(db_data, tasks_data[i],
                                                tasks_data[i].actions[a])])]),
         1)

\* base_current + timedelta(days=offset_days), as an ordinal
offset_current(offset_days) == Ymd2Ord(2024, 5, 15) + offset_days

\* the messages of _validate_dobs_reasonable for one user
DobMessages(user_id, user, offset_days) ==
  LET Aged(age_days) ==
        (IF age_days < 0
           THEN <<Error("DOB is in the future (current date)", user_id,
                        user.dob)>>
           ELSE <<>>)
        \o (IF age_days * 4 > 150 * 1461
              THEN <<Warning("DOB results in age > 150 years", user_id,
                             user.dob)>>
              ELSE <<>>)
        \o (IF age_days < 0
              THEN <<Error("DOB is in the future", user_id, user.dob)>>
              ELSE <<>>)
      Parsed(dob) ==
        IF ~dob.ok THEN <<Error("Invalid DOB format", user_id, user.dob)>>
        ELSE Aged(offset_current(offset_days) - Ymd2Ord(dob.y, dob.m, dob.d))
  IN  IF user.dob = None THEN <<>> ELSE Parsed(Strptime(user.dob, FALSE))

_validate_dobs_reasonable(db_data, offset_days, result) ==
  AddAll(result,
         Flatten([i \in 1..Len(db_data.users) |->
                    DobMessages(db_data.users[i][1], db_data.users[i][2],
                                offset_days)]),
         1)

\* the warnings of _validate_timestamps_consistent for one timestamp field
\* of the status of one date
TimestampMessages(flight_num, date, ts) ==
  LET ts_date == BeforeT(ts)
      Parsed(date_dt, ts_dt) ==
        IF ~date_dt.ok \/ ~ts_dt.ok THEN <<>>
        ELSE IF Ymd2Ord(ts_dt.y, ts_dt.m, ts_dt.d)
                  - Ymd2Ord(date_dt.y, date_dt.m, date_dt.d) \notin {0, 1}
          THEN <<Warning("date differs", flight_num, ts_date)>>
        ELSE <<>>
  IN  IF ts = None \/ ts_date = date THEN <<>>
      ELSE Parsed(Strptime(date, FALSE), Strptime(ts_date, FALSE))

StatusMessages(flight_num, date, status) ==
  IF status.status \in {"landed", "flying", "on_time"}
    THEN Flatten([k \in 1..Len(timestamp_fields) |->
                    TimestampMessages(flight_num, date,
                                      status[timestamp_fields[k]])])
    ELSE <<>>

_validate_timestamps_consistent(db_data, result) ==
  AddAll(result,
         Flatten([i \in 1..Len(db_data.flights) |->
                    Flatten([k \in 1..Len(db_data.flights[i][2].dates) |->
                               StatusMessages(
                                 db_data.flights[i][1],
                                 db_data.flights[i][2].dates[k][1],
                                 db_data.flights[i][2].dates[k][2])])]),
         1)

RECURSIVE SearchCurrentTime(_, _)
\* re.search(pattern, policy_text): where the first match starts, 0 for
\* no match
SearchCurrentTime(t, i) ==
  IF i > Len(t) THEN 0
  ELSE IF CurrentTimeShapeAt(t, i) THEN i
  ELSE SearchCurrentTime(t, i + 1)

_validate_policy_date(policy_text, offset_days, result) ==
  LET expected_ts   == offset_iso_timestamp(AIRLINE_CURRENT_DATETIME,
                                            offset_days)
      expected_date == BeforeT(expected_ts)
      expected_time == AfterT(expected_ts)
      match         == SearchCurrentTime(policy_text, 1)
      actual_date   == SubSeq(policy_text, match + 20, match + 29)
      actual_time   == SubSeq(policy_text, match + 31, match + 38)
  IN  IF match = 0
        THEN add_error(result,
                       Message("Policy.md does not contain a valid 'current time' line",
                               None, None))
      ELSE AddAll(result,
             (IF actual_date # expected_date
                THEN <<Error("Policy date mismatch", None, actual_date)>>
                ELSE <<>>)
             \o (IF actual_time # expected_time
                   THEN <<Error("Policy time mismatch", None, actual_time)>>
                   ELSE <<>>),
             1)

\* the files of a variant's data directory
DataFiles == {"db.json", "tasks.json", "policy.md"}

\* validate_offset_dataset(offset_days) on the data directory `dir`
validate_offset_dataset(dir, offset_days) ==
  IF ~dir.exists
    THEN add_error(ValidationResult,
                   Message("Data directory does not exist", None, None))
  ELSE IF ~(DataFiles \subseteq dir.files)
    THEN add_error(ValidationResult,
                   Message("Failed to load data files", None, None))
  ELSE _validate_policy_date(dir.policy, offset_days,
         _validate_timestamps_consistent(dir.db,
           _validate_dobs_reasonable(dir.db, offset_days,
             _validate_flight_dates_exist(dir.db, dir.tasks,
                                          ValidationResult))))

\* the exception validate_offset_dataset ends with, None when it returns:
\* base_current + timedelta(days=offset_days) of _validate_dobs_reasonable
\* leaves the years 0001..9999
validate_offset_dataset_raises(dir, offset_days) ==
  IF /\ dir.exists
     /\ DataFiles \subseteq dir.files
     /\ (offset_current(offset_days) < 1
           \/ offset_current(offset_days) > MaxOrdinal)
    THEN OverflowError
    ELSE None

(***************************************************************************)
(* The inputs the functions are called on, written from calendar values    *)
(***************************************************************************)
\* years around the base year that the dates are drawn from
YearSpan == 1

\* the small day offsets -MaxSmallOffset..MaxSmallOffset
MaxSmallOffset == 2

\* the number of literals a scanned text is written from
MaxLiterals == 3

\* the benchmark's years, and a century year of each kind (1900 is not a
\* leap year, 2000 is)
Years ==
  ((AIRLINE_BASE_YEAR - YearSpan)..(AIRLINE_BASE_YEAR + YearSpan))
    \cup {1900, 2000}

\* first, middle and last days of a month; 29..31 do not exist in every month
DaysOfMonth == {1, 12, 28, 29, 30, 31}

\* the default offsets, the small ones, a leap year's length, and the
\* ten years either way
Offsets ==
  DEFAULT_OFFSETS \cup ((-MaxSmallOffset)..MaxSmallOffset)
    \cup {-366, 366, -3650, 3650}

\* the base years a text date without a year is resolved in: the
\* benchmark's, a leap year, and the year after
BaseYears == {AIRLINE_BASE_YEAR, AIRLINE_BASE_YEAR + 1}

\* the offsets scanned texts are shifted by
ScanOffsets == {0, 1}

\* the decimal writing of a calendar field, as the formats define it
Two(n) == <<Digits[(n \div 10) + 1], Digits[(n % 10) + 1]>>

Four(n) == Two(n \div 100) \o Two(n % 100)

Plain(n) == IF n < 10 THEN <<Digits[n + 1]>> ELSE Two(n)

MonthWord(m, short) == IF short THEN MONTH_NAMES_SHORT[m] ELSE MONTH_NAMES[m]

\* A literal: its format tag and calendar value.  short: the month name
\* is written in its three-letter form.
Lit(kind, y, m, d, H, M, S, short) ==
  [kind |-> kind, y |-> y, m |-> m, d |-> d, H |-> H, M |-> M, S |-> S,
   short |-> short]

\* text between literals, which holds no date
Sep(chars) == [kind |-> "sep", chars |-> chars]

IsoDateText(y, m, d) == Four(y) \o <<"-">> \o Two(m) \o <<"-">> \o Two(d)

TimeText(H, M, S) == Two(H) \o <<":">> \o Two(M) \o <<":">> \o Two(S)

\* the characters of a literal or separator
LitText(f) ==
  CASE f.kind = "sep" -> f.chars
    [] f.kind = "iso_date" -> IsoDateText(f.y, f.m, f.d)
    [] f.kind = "iso_timestamp" ->
         IsoDateText(f.y, f.m, f.d) \o <<"T">> \o TimeText(f.H, f.M, f.S)
    [] f.kind = "text_date_no_year" ->
         MonthWord(f.m, f.short) \o <<" ">> \o Plain(f.d)
    [] f.kind = "text_date_with_year" ->
         MonthWord(f.m, f.short) \o <<" ">> \o Plain(f.d) \o <<" ">>
           \o Four(f.y)

RECURSIVE Concat(_)
\* the text written from a sequence of literals and separators
Concat(fs) == IF fs = <<>> THEN <<>> ELSE LitText(Head(fs)) \o Concat(Tail(fs))

IsDateLit(f) == f.kind # "sep"

\* the year a literal's date lies in: a text date without a year lies in
\* the base year
YearOf(f, by) == IF f.kind = "text_date_no_year" THEN by ELSE f.y

\* the Gregorian calendar, as a table
LeapYear(y) == (y % 4 = 0 /\ y % 100 # 0) \/ y % 400 = 0

YearLength(y) == IF LeapYear(y) THEN 366 ELSE 365

MonthLength(y, m) ==
  <<31, IF LeapYear(y) THEN 29 ELSE 28, 31, 30, 31, 30, 31, 31, 30, 31, 30,
    31>>[m]

\* the literal names a day of the calendar
ValidLit(f, by) == f.d <= MonthLength(YearOf(f, by), f.m)

RECURSIVE CalendarShift(_, _, _, _)
\* The day n days after (before, for n < 0) day d of month m of year y,
\* found by walking the calendar: within the month, else to the first day
\* of the next month or the last day of the previous one, whole years at
\* a time from a year's first or last day.
CalendarShift(y, m, d, n) ==
  IF n = 0 THEN [y |-> y, m |-> m, d |-> d]
  ELSE IF n > 0
    THEN IF m = 1 /\ d = 1 /\ n >= YearLength(y)
           THEN CalendarShift(y + 1, 1, 1, n - YearLength(y))
         ELSE IF d + n <= MonthLength(y, m)
           THEN [y |-> y, m |-> m, d |-> d + n]
         ELSE IF m = 12
           THEN CalendarShift(y + 1, 1, 1, n - (MonthLength(y, m) - d) - 1)
         ELSE CalendarShift(y, m + 1, 1, n - (MonthLength(y, m) - d) - 1)
    ELSE IF m = 12 /\ d = 31 /\ -n >= YearLength(y)
           THEN CalendarShift(y - 1, 12, 31, n + YearLength(y))
         ELSE IF d + n >= 1
           THEN [y |-> y, m |-> m, d |-> d + n]
         ELSE IF m = 1
           THEN CalendarShift(y - 1, 12, 31, n + d)
         ELSE CalendarShift(y, m - 1, MonthLength(y, m - 1), n + d)

\* the day a literal names, moved by n days
Shifted(f, n, by) == CalendarShift(YearOf(f, by), f.m, f.d, n)

IsoDateLits ==
  {Lit("iso_date", y, m, d, 0, 0, 0, FALSE) :
     y \in Years, m \in 1..12, d \in DaysOfMonth}

IsoTimestampLits ==
  {Lit("iso_timestamp", y, m, d, t[1], t[2], t[3], FALSE) :
     y \in Years, m \in 1..12, d \in DaysOfMonth,
     t \in {<<23, 59, 59>>, <<0, 0, 0>>}}

TextDateLits ==
  {Lit("text_date_no_year", AIRLINE_BASE_YEAR, m, d, 0, 0, 0, sh) :
     m \in 1..12, d \in DaysOfMonth, sh \in BOOLEAN}
  \cup
  {Lit("text_date_with_year", y, m, d, 0, 0, 0, sh) :
     y \in Years, m \in {2, 5, 12}, d \in DaysOfMonth, sh \in BOOLEAN}

\* the literals scanned texts are written from: one of each format, a
\* month end, a year end, an abbreviated month, and two days that do not
\* exist
ScanLits ==
  { Lit("iso_date", 2024, 5, 31, 0, 0, 0, FALSE),
    Lit("iso_date", 2024, 2, 30, 0, 0, 0, FALSE),
    Lit("iso_timestamp", 2024, 12, 31, 23, 59, 59, FALSE),
    Lit("text_date_no_year", 2024, 12, 31, 0, 0, 0, TRUE),
    Lit("text_date_no_year", 2024, 2, 30, 0, 0, 0, TRUE),
    Lit("text_date_with_year", 2024, 5, 12, 0, 0, 0, FALSE) }

\* what stands between two literals of a scanned text
ScanSeps == { Sep(<<" ">>), Sep(<<",", " ", "x", " ">>) }

\* texts that hold no date literal, some of them close to one
PlainTexts ==
  { <<"B","e"," ","p","o","l","i","t","e",".">>,
    <<"M","a","y"," ","I"," ","1","2">>,
    <<"2","0","2","4","-","5","-","3","1">>,
    <<"M","a","y","d","a","y"," ","1","2">> }

RECURSIVE ScanInputs(_)
\* the scanned texts of exactly k literals, a separator between each two
ScanInputs(k) ==
  IF k = 1 THEN {<<f>> : f \in ScanLits}
  ELSE {fs \o <<sp, f>> : fs \in ScanInputs(k - 1), sp \in ScanSeps,
                          f \in ScanLits}

\* the literals of the base year, each alone in a text
SingleLits ==
  {f \in IsoDateLits \cup IsoTimestampLits \cup TextDateLits :
     f.y = AIRLINE_BASE_YEAR}


(***************************************************************************)
(* The datasets that are transformed and validated                         *)
(***************************************************************************)
\* the number of date keys of the first flight
MaxDates == 2

\* the days flights are flown on: consecutive days across a month end
FlightDays ==
  {[y |-> 2024, m |-> 5, d |-> 30], [y |-> 2024, m |-> 5, d |-> 31],
   [y |-> 2024, m |-> 6, d |-> 1]}

DayText(day) == IsoDateText(day.y, day.m, day.d)

\* the offsets variants are generated for: the default ones, and one day
DataOffsets == (DEFAULT_OFFSETS \ {0}) \cup {1}

HAT001 == <<"H","A","T","0","0","1">>

HAT002 == <<"H","A","T","0","0","2">>

User1 == <<"m","i","a","_","l","i","_","3","6","6","8">>

Reservation1 == <<"4","W","Q","1","5","0">>

Task0 == <<"0">>

K_user_id == <<"u","s","e","r","_","i","d">>

K_flights == <<"f","l","i","g","h","t","s">>

K_flight_number == <<"f","l","i","g","h","t","_","n","u","m","b","e","r">>

K_date == <<"d","a","t","e">>

K_passengers == <<"p","a","s","s","e","n","g","e","r","s">>

K_dob == <<"d","o","b">>

K_total == <<"t","o","t","a","l">>

BookFor == <<"B","o","o","k"," ","f","o","r"," ">>

PolicyHeading ==
  <<"#"," ","A","i","r","l","i","n","e"," ","P","o","l","i","c","y","\n">>

PolicyRule == <<"\n","B","e"," ","p","o","l","i","t","e",".">>

RECURSIVE DayLists(_)
\* the sequences of k distinct flight days, in any order
DayLists(k) ==
  IF k = 0 THEN {<<>>}
  ELSE {ds \in {Append(ds0, day) : ds0 \in DayLists(k - 1),
                                   day \in FlightDays} :
          \A i, j \in 1..Len(ds) : i # j => ds[i] # ds[j]}

\* the status of a flight on a day: open for sale, or landed after a
\* departure that day and an arrival past midnight
StatusOn(day, status) ==
  LET next == CalendarShift(day.y, day.m, day.d, 1)
      flown == status = "landed"
  IN  [status |-> status,
       available_seats |-> IF flown THEN 0 ELSE day.d,
       actual_departure_time_est |->
         IF flown THEN DayText(day) \o <<"T">> \o TimeText(22, 15, 0)
         ELSE None,
       actual_arrival_time_est |->
         IF flown THEN DayText(next) \o <<"T">> \o TimeText(0, 40, 0)
         ELSE None,
       estimated_departure_time_est |-> None,
       estimated_arrival_time_est |-> None]

\* flight["dates"] for the days ds
DatesOf(ds, status) ==
  [k \in 1..Len(ds) |-> <<DayText(ds[k]), StatusOn(ds[k], status)>>]

\* db.json: one user, two flights, one reservation
DbOf(ds, status) ==
  [users |->
     << <<User1, [dob |-> IsoDateText(1980, 2, 29),
                  passengers |-> <<[dob |-> IsoDateText(2021, 3, 4)]>>]>> >>,
   flights |->
     << <<HAT001, [dates |-> DatesOf(ds, status)]>>,
        <<HAT002, [dates |-> DatesOf(<<[y |-> 2024, m |-> 6, d |-> 1]>>,
                                     "available")]>> >>,
   reservations |->
     << <<Reservation1,
          [created_at |-> IsoDateText(2024, 5, 10) \o <<"T">>
                            \o TimeText(9, 30, 0),
           flights |-> <<[flight_number |-> HAT001, date |-> DayText(ds[1])]>>,
           passengers |-> <<[dob |-> IsoDateText(1980, 2, 29)]>>]>> >>]

\* the dates of birth of the passenger a task books for
PassengerDobs == {IsoDateText(1990, 7, 15), IsoDateText(2021, 3, 4)}

\* tasks.json: one task whose action books flight HAT001 on `day` for a
\* passenger born on dob
TasksOf(day, dob, instructions) ==
  <<[id |-> Task0,
     instructions |->
       [task_instructions |-> instructions, reason_for_call |-> None,
        known_info |-> None, unknown_info |-> None],
     actions |->
       <<[name |-> "book_reservation",
          arguments |->
            << <<K_user_id, Str(User1)>>,
               <<K_flights,
                 List(<<Dict(<< <<K_flight_number, Str(HAT001)>>,
                                <<K_date, Str(DayText(day))>> >>)>>)>>,
               <<K_passengers, List(<<Dict(<< <<K_dob, Str(dob)>> >>)>>)>>,
               <<K_total, Num(2)>> >>]>>,
     nl_assertions |-> <<>>,
     communicate_info |-> <<>>,
     purpose |-> None,
     notes |-> None]>>

\* what the task instructions say
Instructions ==
  {None, BookFor \o LitText(Lit("text_date_no_year", 2024, 5, 31, 0, 0, 0,
                                FALSE))}

\* "The current time is 2024-05-15 15:00:00 EST."
Sentinel ==
  CurrentTimeIs \o IsoDateText(2024, 5, 15) \o <<" ">> \o TimeText(15, 0, 0)
    \o Est

\* policy.md
Policies == {Sentinel, PolicyHeading \o Sentinel \o PolicyRule}


(***************************************************************************)
(* Calls of the date functions                                             *)
(***************************************************************************)
Prefixes == {<<>>, <<"B","o","o","k"," ","f","o","r"," ">>}

\* a data directory just made: no file written yet
EmptyDir ==
  [exists |-> TRUE, files |-> {},
   db |-> [users |-> <<>>, flights |-> <<>>, reservations |-> <<>>],
   tasks |-> <<>>, policy |-> <<>>]

\* no object is followed
NoHeap == [cells |-> <<>>, before |-> <<>>, input |-> <<>>, result |-> <<>>]

\* a source directory just made: no file written yet
EmptySrcDir == [exists |-> TRUE, files |-> {}]

\* the directories of the variant are made and empty
DirsMade == heap = NoHeap /\ force = FALSE /\ src_dir = EmptySrcDir

\* no dataset is involved
NoDataset ==
  /\ db = EmptyDir.db /\ tasks = <<>> /\ policy = <<>>
  /\ variant = EmptyDir /\ report = ValidationResult
  /\ DirsMade

\* One call of one function on one literal
Init ==
  /\ pc = "call"
  /\ out = <<>>
  /\ \/ /\ op = "offset_iso_date"
        /\ \E f \in IsoDateLits : lits = <<f>>
        /\ days \in Offsets
        /\ base_year = AIRLINE_BASE_YEAR
     \/ /\ op = "offset_iso_timestamp"
        /\ \E f \in IsoTimestampLits : lits = <<f>>
        /\ days \in Offsets
        /\ base_year = AIRLINE_BASE_YEAR
     \/ /\ op = "offset_text_dates"
        /\ \E f \in TextDateLits, pre \in Prefixes : lits = <<Sep(pre), f>>
        /\ days \in Offsets
        /\ base_year \in BaseYears
        /\ lits[2].kind = "text_date_with_year"
             => base_year = AIRLINE_BASE_YEAR
     \/ /\ op = "offset_all_dates_in_text"
        /\ \E f \in SingleLits : lits = <<f>>
        /\ days \in ScanOffsets
        /\ base_year = AIRLINE_BASE_YEAR
  /\ text = Concat(lits)
  /\ NoDataset
  /\ NoProcesses

\* One call of offset_all_dates_in_text on a text of several literals
InitScan ==
  /\ pc = "call"
  /\ out = <<>>
  /\ op = "offset_all_dates_in_text"
  /\ \/ \E k \in 1..MaxLiterals : lits \in ScanInputs(k)
     \/ \E t \in PlainTexts : lits = <<Sep(t)>>
  /\ days \in ScanOffsets
  /\ base_year = AIRLINE_BASE_YEAR
  /\ text = Concat(lits)
  /\ NoDataset
  /\ NoProcesses

Call_offset_iso_date ==
  /\ pc = "call" /\ op = "offset_iso_date"
  /\ out' = offset_iso_date(text, days)
  /\ pc' = "done"
  /\ UNCHANGED <<op, text, days, base_year, lits>>
  /\ UNCHANGED dataVars
  /\ UNCHANGED genVars
  /\ UNCHANGED orchVars

Call_offset_iso_timestamp ==
  /\ pc = "call" /\ op = "offset_iso_timestamp"
  /\ out' = offset_iso_timestamp(text, days)
  /\ pc' = "done"
  /\ UNCHANGED <<op, text, days, base_year, lits>>
  /\ UNCHANGED dataVars
  /\ UNCHANGED genVars
  /\ UNCHANGED orchVars

Call_offset_text_dates ==
  /\ pc = "call" /\ op = "offset_text_dates"
  /\ out' = offset_text_dates(text, days, base_year)
  /\ pc' = "done"
  /\ UNCHANGED <<op, text, days, base_year, lits>>
  /\ UNCHANGED dataVars
  /\ UNCHANGED genVars
  /\ UNCHANGED orchVars

Call_offset_all_dates_in_text ==
  /\ pc = "call" /\ op = "offset_all_dates_in_text"
  /\ out' = offset_all_dates_in_text(text, days, base_year)
  /\ pc' = "done"
  /\ UNCHANGED <<op, text, days, base_year, lits>>
  /\ UNCHANGED dataVars
  /\ UNCHANGED genVars
  /\ UNCHANGED orchVars

Next ==
  \/ Call_offset_iso_date
  \/ Call_offset_iso_timestamp
  \/ Call_offset_text_dates
  \/ Call_offset_all_dates_in_text

Spec == Init /\ [][Next]_vars

NextScan == Call_offset_all_dates_in_text

SpecScan == InitScan /\ [][NextScan]_vars

(***************************************************************************)
(* Generation and validation of a variant                                  *)
(***************************************************************************)
\* The original dataset and the offset, the variant's directories made
InitData ==
  /\ pc = "transform_db"
  /\ op = "generate_offset_dataset"
  /\ text = <<>> /\ out = <<>> /\ lits = <<>>
  /\ base_year = AIRLINE_BASE_YEAR
  /\ days \in DataOffsets
  /\ \E k \in 1..MaxDates : \E ds \in DayLists(k) :
       \E status \in {"available", "landed"} : db = DbOf(ds, status)
  /\ \E day \in FlightDays, dob \in PassengerDobs, ins \in Instructions :
       tasks = TasksOf(day, dob, ins)
  /\ policy \in Policies
  /\ variant = EmptyDir
  /\ report = ValidationResult
  /\ DirsMade
  /\ NoProcesses

\* _generate_data_files: db.json is read, transformed and written
Transform_db ==
  /\ pc = "transform_db"
  /\ LET Write(raised) ==
           IF raised # None
             THEN /\ pc' = "raised"
                  /\ out' = raised
                  /\ UNCHANGED variant
             ELSE /\ pc' = "transform_tasks"
                  /\ variant' = [variant EXCEPT
                                   !.db = transform_db(db, days),
                                   !.files = @ \cup {"db.json"}]
                  /\ UNCHANGED out
     IN  Write(transform_db_raises(db, days))
  /\ UNCHANGED <<op, text, days, base_year, lits, db, tasks, policy, report>>
  /\ UNCHANGED genVars
  /\ UNCHANGED orchVars

\* _generate_data_files: tasks.json is read, transformed and written
Transform_tasks ==
  /\ pc = "transform_tasks"
  /\ LET Write(raised) ==
           IF raised # None
             THEN /\ pc' = "raised"
                  /\ out' = raised
                  /\ UNCHANGED variant
             ELSE /\ pc' = "transform_policy"
                  /\ variant' = [variant EXCEPT
                                   !.tasks = transform_tasks(tasks, days),
                                   !.files = @ \cup {"tasks.json"}]
                  /\ UNCHANGED out
     IN  Write(transform_tasks_raises(tasks, days))
  /\ UNCHANGED <<op, text, days, base_year, lits, db, tasks, policy, report>>
  /\ UNCHANGED genVars
  /\ UNCHANGED orchVars

\* _generate_data_files: policy.md is read, transformed and written
Transform_policy ==
  /\ pc = "transform_policy"
  /\ LET Write(new_policy) ==
           IF IsException(new_policy)
             THEN /\ pc' = "raised"
                  /\ out' = new_policy
                  /\ UNCHANGED variant
             ELSE /\ pc' = "validate"
                  /\ variant' = [variant EXCEPT
                                   !.policy = new_policy,
                                   !.files = @ \cup {"policy.md"}]
                  /\ UNCHANGED out
     IN  Write(transform_policy(policy, days))
  /\ UNCHANGED <<op, text, days, base_year, lits, db, tasks, policy, report>>
  /\ UNCHANGED genVars
  /\ UNCHANGED orchVars

\* validate_offset_dataset(offset_days) on the generated variant
Validate ==
  /\ pc = "validate"
  /\ IF validate_offset_dataset_raises(variant, days) # None
       THEN /\ pc' = "raised"
            /\ out' = validate_offset_dataset_raises(variant, days)
            /\ UNCHANGED report
       ELSE /\ pc' = "done"
            /\ report' = validate_offset_dataset(variant, days)
            /\ UNCHANGED out
  /\ UNCHANGED <<op, text, days, base_year, lits, db, tasks, policy, variant>>
  /\ UNCHANGED genVars
  /\ UNCHANGED orchVars

NextData == Transform_db \/ Transform_tasks \/ Transform_policy \/ Validate

SpecData == InitData /\ [][NextData]_vars

(***************************************************************************)
(* validate_offset_dataset called on a data directory as it stands         *)
(***************************************************************************)
\* the offsets the validated variants are of
ValidateOffsets == {-365, 1, 365}

\* the years of the flight date a task refers to: before 2020, the 2020s,
\* and the 2030s
RefYears == {2019, 2020, 2024, 2029, 2030, 2031}

\* offset_current = base_current + timedelta(days=offset_days), as a
\* calendar day
CurrentDay(offset_days) == CalendarShift(2024, 5, 15, offset_days)

\* the dates of birth of a user: a leap day, the current date, the day
\* after it, and one more than 150 years back
UserDobs(offset_days) ==
  {IsoDateText(1980, 2, 29), DayText(CurrentDay(offset_days)),
   DayText(CurrentDay(offset_days + 1)), IsoDateText(1850, 1, 1)}

\* the dates of birth of a passenger: one of each record of DbOf, and the
\* day after the current date
OtherDobs(offset_days) ==
  {IsoDateText(1980, 2, 29), IsoDateText(2021, 3, 4),
   DayText(CurrentDay(offset_days + 1))}

\* db.json of DbOf with the dates of birth of the user, of the user's
\* saved passenger and of the reservation's passenger
DobDb(user_dob, passenger_dob, reservation_dob) ==
  LET With(base) ==
        [base EXCEPT
           !.users = << <<User1, [dob |-> user_dob,
                                  passengers |-> <<[dob |-> passenger_dob]>>]>> >>,
           !.reservations =
              << <<Reservation1,
                   [base.reservations[1][2] EXCEPT
                      !.passengers = <<[dob |-> reservation_dob]>>]>> >>]
  IN  With(DbOf(<<[y |-> 2024, m |-> 5, d |-> 31]>>, "available"))

\* the data directory of a variant: the three data files, the policy with
\* the sentinel of the offset
InitValidate ==
  /\ pc = "validate"
  /\ op = "validate_offset_dataset"
  /\ text = <<>> /\ out = <<>> /\ lits = <<>>
  /\ base_year = AIRLINE_BASE_YEAR
  /\ days \in ValidateOffsets
  /\ \/ \E y \in RefYears, key_d \in {30, 31} :
          /\ db = DbOf(<<[y |-> y, m |-> 5, d |-> key_d]>>, "available")
          /\ tasks = TasksOf([y |-> y, m |-> 5, d |-> 31],
                             IsoDateText(1990, 7, 15), None)
     \/ \E user_dob \in UserDobs(days) :
          \E passenger_dob, reservation_dob \in OtherDobs(days) :
            /\ db = DobDb(user_dob, passenger_dob, reservation_dob)
            /\ tasks = TasksOf([y |-> 2024, m |-> 5, d |-> 31],
                               IsoDateText(1990, 7, 15), None)
  /\ policy = Sentinel
  /\ variant = [exists |-> TRUE, files |-> DataFiles, db |-> db,
                tasks |-> tasks, policy |-> transform_policy(Sentinel, days)]
  /\ report = ValidationResult
  /\ DirsMade
  /\ NoProcesses

NextValidate == Validate

SpecValidate == InitValidate /\ [][NextValidate]_vars

(***************************************************************************)
(* A variant whose db.json is transformed and whose tasks.json is not      *)
(***************************************************************************)
\* the offsets of these variants: the generated ones, and one day back
StaleOffsets == DataOffsets \cup {-1}

\* as InitData, with one task that books one flight date for a passenger
\* born in 1990
InitStale ==
  /\ pc = "transform_db"
  /\ op = "generate_offset_dataset"
  /\ text = <<>> /\ out = <<>> /\ lits = <<>>
  /\ base_year = AIRLINE_BASE_YEAR
  /\ days \in StaleOffsets
  /\ \E k \in 1..MaxDates : \E ds \in DayLists(k) :
       \E status \in {"available", "landed"} : db = DbOf(ds, status)
  /\ \E day \in FlightDays :
       tasks = TasksOf(day, IsoDateText(1990, 7, 15), None)
  /\ policy \in Policies
  /\ variant = EmptyDir
  /\ report = ValidationResult
  /\ DirsMade
  /\ NoProcesses

\* tasks.json is written as it was read: transform_tasks is left out
Keep_tasks ==
  /\ pc = "transform_tasks"
  /\ pc' = "transform_policy"
  /\ variant' = [variant EXCEPT !.tasks = tasks,
                                !.files = @ \cup {"tasks.json"}]
  /\ UNCHANGED <<op, text, days, base_year, out, lits, db, tasks, policy,
                 report>>
  /\ UNCHANGED genVars
  /\ UNCHANGED orchVars

NextStale == Transform_db \/ Keep_tasks \/ Transform_policy \/ Validate

SpecStale == InitStale /\ [][NextStale]_vars

(***************************************************************************)
(* validate_offset_dataset on a variant with one timestamp of one status   *)
(***************************************************************************)
\* the values of the status field
TimestampStatuses ==
  {"available", "on time", "on_time", "delayed", "flying", "landed",
   "cancelled"}

\* how many days after the key date the date part of the timestamp is
TimestampDrifts == {-366, -1, 0, 1, 2}

\* db.json of DbOf whose flight HAT001 has, on 2024-05-31, the status
\* `status` with the timestamp field `field` populated `drift` days after
\* the key date
TimestampDb(status, field, drift) ==
  LET With(base, ts) ==
        [base EXCEPT !.flights[1][2].dates[1][2] =
                        [@ EXCEPT !.status = status, ![field] = ts]]
  IN  With(DbOf(<<[y |-> 2024, m |-> 5, d |-> 31]>>, "available"),
           DayText(CalendarShift(2024, 5, 31, drift)) \o <<"T">>
             \o TimeText(0, 40, 0))

InitTimestamps ==
  /\ pc = "validate"
  /\ op = "validate_offset_dataset"
  /\ text = <<>> /\ out = <<>> /\ lits = <<>>
  /\ base_year = AIRLINE_BASE_YEAR
  /\ days \in {-365, 1}
  /\ \E status \in TimestampStatuses, drift \in TimestampDrifts :
       \E k \in 1..Len(timestamp_fields) :
         db = TimestampDb(status, timestamp_fields[k], drift)
  /\ tasks = TasksOf([y |-> 2024, m |-> 5, d |-> 31],
                     IsoDateText(1990, 7, 15), None)
  /\ policy = Sentinel
  /\ variant = [exists |-> TRUE, files |-> DataFiles, db |-> db,
                tasks |-> tasks, policy |-> transform_policy(Sentinel, days)]
  /\ report = ValidationResult
  /\ DirsMade
  /\ NoProcesses

NextTimestamps == Validate

SpecTimestamps == InitTimestamps /\ [][NextTimestamps]_vars

(***************************************************************************)
(* policy.md: written by transform_policy, or as it stands, then validated *)
(***************************************************************************)
\* "The current time is <day> <H>:<M>:<S>" followed by `tail`
SentinelOf(day, H, M, S, tail) ==
  CurrentTimeIs \o DayText(day) \o <<" ">> \o TimeText(H, M, S) \o tail

\* the original policies: those of Policies, and one whose sentinel is not
\* followed by " EST."
OriginalPolicies ==
  Policies
    \cup {PolicyHeading
            \o SentinelOf([y |-> 2024, m |-> 5, d |-> 15], 15, 0, 0, <<".">>)
            \o PolicyRule}

\* the sentinels a policy.md of the variant of `offset_days` may hold: the
\* right one, one with the original's date, one a second late
VariantSentinels(offset_days) ==
  {SentinelOf(CurrentDay(offset_days), 15, 0, 0, Est),
   SentinelOf([y |-> 2024, m |-> 5, d |-> 15], 15, 0, 0, Est),
   SentinelOf(CurrentDay(offset_days), 15, 0, 1, Est)}

\* the policy.md texts of a variant: no sentinel, one, or two
VariantPolicies(offset_days) ==
  {PolicyHeading \o PolicyRule}
    \cup {PolicyHeading \o a \o PolicyRule : a \in VariantSentinels(offset_days)}
    \cup {PolicyHeading \o a \o <<"\n">> \o b \o PolicyRule :
            a \in VariantSentinels(offset_days),
            b \in VariantSentinels(offset_days)}

\* the offsets of the variants whose policy is validated
PolicyOffsets == DataOffsets \cup {-1, 30}

\* db.json and tasks.json are in the variant's directory; policy.md is
\* either about to be written from the original by transform_policy, or
\* there as it stands
InitPolicy ==
  /\ text = <<>> /\ out = <<>> /\ lits = <<>>
  /\ base_year = AIRLINE_BASE_YEAR
  /\ days \in PolicyOffsets
  /\ db = DbOf(<<[y |-> 2024, m |-> 5, d |-> 31]>>, "available")
  /\ tasks = TasksOf([y |-> 2024, m |-> 5, d |-> 31],
                     IsoDateText(1990, 7, 15), None)
  /\ \/ /\ pc = "transform_policy"
        /\ op = "generate_offset_dataset"
        /\ policy \in OriginalPolicies
        /\ variant = [exists |-> TRUE, files |-> {"db.json", "tasks.json"},
                      db |-> db, tasks |-> tasks, policy |-> <<>>]
     \/ /\ pc = "validate"
        /\ op = "validate_offset_dataset"
        /\ policy \in VariantPolicies(days)
        /\ variant = [exists |-> TRUE, files |-> DataFiles,
                      db |-> db, tasks |-> tasks, policy |-> policy]
  /\ report = ValidationResult
  /\ DirsMade
  /\ NoProcesses

NextPolicy == Transform_policy \/ Validate

SpecPolicy == InitPolicy /\ [][NextPolicy]_vars

(***************************************************************************)
(* A ValidationResult and the calls of add_error and add_warning on it     *)
(***************************************************************************)
\* the number of add_error and add_warning calls on one result
MaxMessages == 4

\* the messages recorded
ResultMessages ==
  {Message(check, None, None) :
     check \in {"Policy date mismatch", "DOB is in the future",
                "date differs"}}

\* ValidationResult()
InitResult ==
  /\ pc = "call"
  /\ op = "ValidationResult"
  /\ text = <<>> /\ out = <<>> /\ lits = <<>>
  /\ days = 0
  /\ base_year = AIRLINE_BASE_YEAR
  /\ NoDataset
  /\ NoProcesses

\* result.add_error(message)
Call_add_error ==
  /\ pc = "call"
  /\ Len(report.errors) + Len(report.warnings) < MaxMessages
  /\ \E message \in ResultMessages :
       /\ report' = add_error(report, message)
       /\ out' = message
  /\ op' = "add_error"
  /\ UNCHANGED <<pc, text, days, base_year, lits, db, tasks, policy, variant>>
  /\ UNCHANGED genVars
  /\ UNCHANGED orchVars

\* result.add_warning(message)
Call_add_warning ==
  /\ pc = "call"
  /\ Len(report.errors) + Len(report.warnings) < MaxMessages
  /\ \E message \in ResultMessages :
       /\ report' = add_warning(report, message)
       /\ out' = message
  /\ op' = "add_warning"
  /\ UNCHANGED <<pc, text, days, base_year, lits, db, tasks, policy, variant>>
  /\ UNCHANGED genVars
  /\ UNCHANGED orchVars

NextResult == Call_add_error \/ Call_add_warning

SpecResult == InitResult /\ [][NextResult]_vars

(***************************************************************************)
(* validate_offset_dataset on a variant that several checks object to      *)
(***************************************************************************)
\* the offsets: a year back and forth, and two that take 2024-05-15 out of
\* the years 0001..9999
ChecksOffsets == {-740000, -365, 365, 3000000}

\* db.json of TimestampDb with a landed flight and the user's date of birth
ChecksDb(user_dob, drift) ==
  [TimestampDb("landed", "actual_arrival_time_est", drift) EXCEPT
     !.users[1][2].dob = user_dob]

\* the three data files are there; the task's flight date is a key or not,
\* the user's date of birth is plain, in the future or 170 years back, the
\* arrival is on the key date or two days after, policy.md has no
\* sentinel, the original one, or that of +365 days
InitChecks ==
  /\ pc = "validate"
  /\ op = "validate_offset_dataset"
  /\ text = <<>> /\ out = <<>> /\ lits = <<>>
  /\ base_year = AIRLINE_BASE_YEAR
  /\ days \in ChecksOffsets
  /\ \E user_dob \in {IsoDateText(1980, 2, 29), IsoDateText(2031, 1, 1),
                      IsoDateText(1850, 1, 1)} :
       \E drift \in {0, 2} : db = ChecksDb(user_dob, drift)
  /\ \E d \in {30, 31} :
       tasks = TasksOf([y |-> 2024, m |-> 5, d |-> d],
                       IsoDateText(1990, 7, 15), None)
  /\ policy \in {PolicyHeading \o PolicyRule, Sentinel,
                 SentinelOf([y |-> 2025, m |-> 5, d |-> 15], 15, 0, 0, Est)}
  /\ variant = [exists |-> TRUE, files |-> DataFiles, db |-> db,
                tasks |-> tasks, policy |-> policy]
  /\ report = ValidationResult
  /\ DirsMade
  /\ NoProcesses

NextChecks == Validate

SpecChecks == InitChecks /\ [][NextChecks]_vars

(***************************************************************************)
(* The names of a variant                                                  *)
(***************************************************************************)
\* the offsets -MaxNameOffset..MaxNameOffset are named, and the default
\* ones
MaxNameOffset == 20

NameOffsets == ((0 - MaxNameOffset)..MaxNameOffset) \cup DEFAULT_OFFSETS

\* One call of one of the three functions
InitNames ==
  /\ pc = "call"
  /\ op \in {"get_offset_domain_name", "get_offset_data_dir",
             "get_offset_src_dir"}
  /\ days \in NameOffsets
  /\ text = <<>> /\ out = <<>> /\ lits = <<>>
  /\ base_year = AIRLINE_BASE_YEAR
  /\ NoDataset
  /\ NoProcesses

Call_get_offset_domain_name ==
  /\ pc = "call" /\ op = "get_offset_domain_name"
  /\ out' = get_offset_domain_name(days)
  /\ pc' = "done"
  /\ UNCHANGED <<op, text, days, base_year, lits>>
  /\ UNCHANGED dataVars
  /\ UNCHANGED genVars
  /\ UNCHANGED orchVars

Call_get_offset_data_dir ==
  /\ pc = "call" /\ op = "get_offset_data_dir"
  /\ out' = get_offset_data_dir(days)
  /\ pc' = "done"
  /\ UNCHANGED <<op, text, days, base_year, lits>>
  /\ UNCHANGED dataVars
  /\ UNCHANGED genVars
  /\ UNCHANGED orchVars

Call_get_offset_src_dir ==
  /\ pc = "call" /\ op = "get_offset_src_dir"
  /\ out' = get_offset_src_dir(days)
  /\ pc' = "done"
  /\ UNCHANGED <<op, text, days, base_year, lits>>
  /\ UNCHANGED dataVars
  /\ UNCHANGED genVars
  /\ UNCHANGED orchVars

NextNames ==
  \/ Call_get_offset_domain_name
  \/ Call_get_offset_data_dir
  \/ Call_get_offset_src_dir

SpecNames == InitNames /\ [][NextNames]_vars

(***************************************************************************)
(* generate_offset_dataset(offset_days, force)                             *)
(***************************************************************************)
\* a directory that is not there
NoDir == [EmptyDir EXCEPT !.exists = FALSE]

\* the data directory of a variant generated before, from another dataset
OldDir ==
  [exists |-> TRUE,
   files |-> {"db.json", "tasks.json", "policy.md", "split_tasks.json"},
   db |-> DbOf(<<[y |-> 2024, m |-> 5, d |-> 30]>>, "available"),
   tasks |-> TasksOf([y |-> 2024, m |-> 5, d |-> 30], IsoDateText(1990, 7, 15),
                     None),
   policy |-> Sentinel]

\* the files _generate_src_files writes, user_tools.py when the airline
\* domain has one
SrcFiles(user_tools) ==
  {"__init__.py", "tools.py", "environment.py", "utils.py", "data_model.py"}
    \cup (IF user_tools THEN {"user_tools.py"} ELSE {})

\* the source directory of a variant generated before
OldSrcDir == [exists |-> TRUE, files |-> SrcFiles(FALSE)]

NoSrcDir == [exists |-> FALSE, files |-> {}]

\* generate_offset_dataset is called: the original dataset, and what is on
\* disk for the variant
InitGenerate ==
  /\ pc = "generate"
  /\ op = "generate_offset_dataset"
  /\ text = <<>> /\ out = <<>> /\ lits = <<>>
  /\ base_year = AIRLINE_BASE_YEAR
  /\ days \in DataOffsets \cup {0}
  /\ \E day \in FlightDays :
       /\ \E status \in {"available", "landed"} : db = DbOf(<<day>>, status)
       /\ tasks = TasksOf(day, IsoDateText(1990, 7, 15), None)
  /\ policy = Sentinel
  /\ variant \in {NoDir, OldDir}
  /\ report = ValidationResult
  /\ heap = NoHeap
  /\ force \in BOOLEAN
  /\ src_dir \in {NoSrcDir, OldSrcDir}
  /\ NoProcesses

\* both directories made before either is looked at
Call_generate_offset_dataset_MkdirFirst ==
  /\ pc = "generate"
  /\ variant' = [variant EXCEPT !.exists = TRUE]
  /\ src_dir' = [src_dir EXCEPT !.exists = TRUE]
  /\ IF days = 0
       THEN pc' = "raised" /\ out' = ValueError
       ELSE IF (variant.exists \/ src_dir.exists) /\ ~force
         THEN pc' = "raised" /\ out' = FileExistsError
         ELSE pc' = "transform_db" /\ UNCHANGED out
  /\ UNCHANGED <<op, text, days, base_year, lits, db, tasks, policy, report,
                 heap, force>>
  /\ UNCHANGED orchVars

\* generate_offset_dataset up to the call of _generate_data_files: the
\* offset and the two directories are looked at, then the directories made
Call_generate_offset_dataset ==
  /\ pc = "generate"
  /\ IF days = 0
       THEN /\ pc' = "raised" /\ out' = ValueError
            /\ UNCHANGED <<variant, src_dir>>
       ELSE IF variant.exists /\ ~force
         THEN /\ pc' = "raised" /\ out' = FileExistsError
              /\ UNCHANGED <<variant, src_dir>>
       ELSE IF src_dir.exists /\ ~force
         THEN /\ pc' = "raised" /\ out' = FileExistsError
              /\ UNCHANGED <<variant, src_dir>>
       ELSE /\ pc' = "transform_db"
            /\ variant' = [variant EXCEPT !.exists = TRUE]
            /\ src_dir' = [src_dir EXCEPT !.exists = TRUE]
            /\ UNCHANGED out
  /\ UNCHANGED <<op, text, days, base_year, lits, db, tasks, policy, report,
                 heap, force>>
  /\ UNCHANGED orchVars

\* the rest of generate_offset_dataset once policy.md is written ("validate"
\* is where _generate_data_files has its three files written):
\* split_tasks.json is copied and _generate_src_files writes its files
Generate_src_files ==
  /\ pc = "validate"
  /\ variant' = [variant EXCEPT !.files = @ \cup {"split_tasks.json"}]
  /\ \E user_tools \in BOOLEAN :
       src_dir' = [src_dir EXCEPT !.files = @ \cup SrcFiles(user_tools)]
  /\ pc' = "done"
  /\ UNCHANGED <<op, text, days, base_year, out, lits, db, tasks, policy,
                 report, heap, force>>
  /\ UNCHANGED orchVars

NextGenerate ==
  \/ Call_generate_offset_dataset
  \/ Transform_db
  \/ Transform_tasks
  \/ Transform_policy
  \/ Generate_src_files

SpecGenerate == InitGenerate /\ [][NextGenerate]_vars

(***************************************************************************)
(* transform_db called on what transform_db returned                       *)
(***************************************************************************)
\* the number of calls in a row
MaxCalls == 2

\* the offsets of the calls
ComposeOffsets == DataOffsets \cup {-1, 366}

\* the dataset as loaded, no call made yet: variant.db is the dataset the
\* next call is given, out the offsets of the calls made, days their sum
InitCompose ==
  /\ pc = "compose"
  /\ op = "transform_db"
  /\ text = <<>> /\ out = <<>> /\ lits = <<>>
  /\ base_year = AIRLINE_BASE_YEAR
  /\ days = 0
  /\ \E k \in 1..MaxDates : \E ds \in DayLists(k) :
       \E status \in {"available", "landed"} : db = DbOf(ds, status)
  /\ tasks = <<>>
  /\ policy = <<>>
  /\ variant = [EmptyDir EXCEPT !.db = db]
  /\ report = ValidationResult
  /\ DirsMade
  /\ NoProcesses

\* transform_db(db_data, b) on the dataset the call before returned
Call_transform_db_again ==
  /\ pc = "compose"
  /\ Len(out) < MaxCalls
  /\ \E b \in ComposeOffsets :
       LET Return(raised) ==
             IF raised # None
               THEN /\ pc' = "raised"
                    /\ out' = raised
                    /\ UNCHANGED <<variant, days>>
               ELSE /\ pc' = pc
                    /\ variant' = [variant EXCEPT !.db = transform_db(@, b)]
                    /\ days' = days + b
                    /\ out' = Append(out, b)
       IN  Return(transform_db_raises(variant.db, b))
  /\ UNCHANGED <<op, text, base_year, lits, db, tasks, policy, report>>
  /\ UNCHANGED genVars
  /\ UNCHANGED orchVars

NextCompose == Call_transform_db_again

SpecCompose == InitCompose /\ [][NextCompose]_vars

(***************************************************************************)
(* transform_db and transform_tasks called on the objects of json.load     *)
(***************************************************************************)
\* the task of TasksOf with its assertions, communicated values and
\* description filled in
RichTasks(day, dob, instructions) ==
  <<[TasksOf(day, dob, instructions)[1] EXCEPT
       !.nl_assertions = <<BookFor \o DayText(day), BookFor>>,
       !.communicate_info = <<Str(DayText(day)), Num(2)>>,
       !.purpose = BookFor \o DayText(day)]>>

\* the arguments of an action that hold the date `day` and a timestamp of
\* that day in each position: as a value of the arguments, as an element
\* of a list, in a list inside a list, in a mapping inside a list, in a
\* mapping inside a mapping, and arguments that hold no ISO literal
ArgShapes(day) ==
  LET date == Str(DayText(day))
      ts == Str(DayText(day) \o <<"T">> \o TimeText(22, 15, 0))
  IN  {<< <<K_date, date>>, <<K_total, Num(2)>> >>,
       << <<K_date, ts>> >>,
       << <<K_flights, List(<<date, Str(HAT001)>>)>> >>,
       << <<K_flights, List(<<ts>>)>> >>,
       << <<K_flights, List(<<List(<<date>>)>>)>> >>,
       << <<K_flights, List(<<Dict(<< <<K_date, date>>, <<K_dob, ts>> >>)>>)>> >>,
       << <<K_passengers,
            Dict(<< <<K_date, date>>, <<K_flights, List(<<date>>)>> >>)>> >>,
       << <<K_date, Str(<<"2","0","2","4","-","5","-","3","1">>)>>,
          <<K_user_id, Str(User1)>> >>}

\* tasks.json: one task whose action has the arguments `arguments`
ArgTasks(arguments) ==
  <<[TasksOf([y |-> 2024, m |-> 5, d |-> 31], IsoDateText(1990, 7, 15),
             None)[1]
       EXCEPT !.actions = <<[name |-> "update_reservation_flights",
                             arguments |-> arguments]>>]>>

\* the heap after json.load returned `tree`
Loaded(tree) ==
  LET Of(r) ==
        [cells |-> r.cells, before |-> r.cells, input |-> r.val,
         result |-> <<>>]
  IN  Of(Alloc(<<>>, tree))

\* One call of transform_db or transform_tasks on what json.load returned
InitCopy ==
  /\ pc = "call"
  /\ text = <<>> /\ out = <<>> /\ lits = <<>>
  /\ base_year = AIRLINE_BASE_YEAR
  /\ days \in DataOffsets
  /\ \/ /\ op = "transform_db"
        /\ \E k \in 1..MaxDates : \E ds \in DayLists(k) :
             \E status \in {"available", "landed"} : db = DbOf(ds, status)
        /\ tasks = <<>>
        /\ heap = Loaded(DbJson(db))
     \/ /\ op = "transform_tasks"
        /\ db = EmptyDir.db
        /\ \/ \E day \in FlightDays, dob \in PassengerDobs,
                   ins \in Instructions :
                tasks \in {TasksOf(day, dob, ins), RichTasks(day, dob, ins)}
           \/ \E day \in FlightDays : \E arguments \in ArgShapes(day) :
                tasks = ArgTasks(arguments)
        /\ heap = Loaded(TasksJson(tasks))
  /\ policy = <<>>
  /\ variant = EmptyDir
  /\ report = ValidationResult
  /\ force = FALSE
  /\ src_dir = EmptySrcDir
  /\ NoProcesses

Call_transform_db ==
  /\ pc = "call" /\ op = "transform_db"
  /\ LET Return(r) ==
           heap' = [heap EXCEPT !.cells = r.cells, !.result = r.val]
     IN  Return(transform_db_heap(heap.cells, heap.input, days))
  /\ pc' = "done"
  /\ UNCHANGED <<op, text, days, base_year, out, lits, force, src_dir>>
  /\ UNCHANGED dataVars
  /\ UNCHANGED orchVars

Call_transform_tasks ==
  /\ pc = "call" /\ op = "transform_tasks"
  /\ LET Return(r) ==
           heap' = [heap EXCEPT !.cells = r.cells, !.result = r.val]
     IN  Return(transform_tasks_heap(heap.cells, heap.input, days))
  /\ pc' = "done"
  /\ UNCHANGED <<op, text, days, base_year, out, lits, force, src_dir>>
  /\ UNCHANGED dataVars
  /\ UNCHANGED orchVars

NextCopy == Call_transform_db \/ Call_transform_tasks

SpecCopy == InitCopy /\ [][NextCopy]_vars

(***************************************************************************)
(* Processes on one disk.  The disk maps the path of a directory to        *)
(* whether it is there and to its files; a file is <<name, content>>, and  *)
(* the content of a file is the offset it was written for (0: the          *)
(* original's), since what generate_offset_dataset writes is a function of *)
(* the offset and of the original it reads.                                *)
(***************************************************************************)
FileNotFoundError == <<"FileNotFoundError">>

ImportError == <<"ImportError">>

KeyboardInterrupt == <<"KeyboardInterrupt">>

\* AIRLINE_DATA_DIR and AIRLINE_SRC_DIR
AIRLINE_DATA_DIR == Append(OFFSET_DATA_DIR, Airline)

AIRLINE_SRC_DIR == Append(SRC_DIR \o <<"tau2", "domains">>, Airline)

\* the files of the original that generation reads
OriginalDataFiles == {"db.json", "tasks.json", "policy.md", "split_tasks.json"}

\* the files generate_offset_dataset writes, in the order it writes them:
\* the directory written to, the name, and whether the file of that name
\* in the original's directory is read for it
GENERATED_FILES ==
  << [dir |-> "data", name |-> "db.json", reads |-> TRUE],
     [dir |-> "data", name |-> "tasks.json", reads |-> TRUE],
     [dir |-> "data", name |-> "policy.md", reads |-> TRUE],
     [dir |-> "data", name |-> "split_tasks.json", reads |-> TRUE],
     [dir |-> "src", name |-> "__init__.py", reads |-> FALSE],
     [dir |-> "src", name |-> "tools.py", reads |-> TRUE],
     [dir |-> "src", name |-> "environment.py", reads |-> FALSE],
     [dir |-> "src", name |-> "utils.py", reads |-> FALSE],
     [dir |-> "src", name |-> "data_model.py", reads |-> TRUE],
     [dir |-> "src", name |-> "user_tools.py", reads |-> TRUE] >>

\* a directory that is not there, and one with the files `names` written
\* for the offset `content`
Absent == [exists |-> FALSE, files |-> {}]

DirOf(names, content) ==
  [exists |-> TRUE, files |-> {<<name, content>> : name \in names}]

\* path / name exists
FileExists(dir, name) == \E f \in dir.files : f[1] = name

\* open(path / name, "w") and write, or shutil.copy to it
WriteFile(dir, name, content) ==
  [dir EXCEPT !.files = {f \in @ : f[1] # name} \cup {<<name, content>>}]

\* the paths of the directories of the original and of the variants of
\* `offsets`
DiskPaths(offsets) ==
  {get_offset_data_dir(d) : d \in offsets \cup {0}}
    \cup {get_offset_src_dir(d) : d \in offsets \cup {0}}

\* the disk with the original, with user_tools.py or without, and the
\* variants of `generated` as a complete generation leaves them
DiskWith(offsets, generated, user_tools) ==
  [path \in DiskPaths(offsets) |->
     IF path = AIRLINE_DATA_DIR THEN DirOf(OriginalDataFiles, 0)
     ELSE IF path = AIRLINE_SRC_DIR THEN DirOf(SrcFiles(user_tools), 0)
     ELSE IF \E d \in generated : path = get_offset_data_dir(d)
       THEN DirOf(OriginalDataFiles,
                  CHOOSE d \in generated : path = get_offset_data_dir(d))
     ELSE IF \E d \in generated : path = get_offset_src_dir(d)
       THEN DirOf(SrcFiles(user_tools),
                  CHOOSE d \in generated : path = get_offset_src_dir(d))
     ELSE Absent]

\* a process: the function it runs and its arguments, the step it is at
\* (k: the file or the offset it has come to), the domains in its registry
\* (tau2 registers "airline" itself), what it has returned or raised
Process(call, offset_days, force_arg, offsets) ==
  [call |-> call, offset_days |-> offset_days, force |-> force_arg,
   offsets |-> offsets, pc |-> "start", k |-> 1, results |-> <<>>,
   registry |-> {Airline}, out |-> None]

\* the process has raised
Raise(proc, exception) == [proc EXCEPT !.pc = "raised", !.out = exception]

\* the original's directory that the file GENERATED_FILES[k] is read from
OriginalOf(file) ==
  IF file.dir = "data" THEN AIRLINE_DATA_DIR ELSE AIRLINE_SRC_DIR

\* the process after the file k, written or skipped
AfterFile(proc) ==
  IF proc.k = Len(GENERATED_FILES) THEN [proc EXCEPT !.pc = "done"]
  ELSE [proc EXCEPT !.k = @ + 1]

\* what a process leaves alone: the calls followed one at a time
OneCallIdle ==
  /\ UNCHANGED <<pc, op, text, days, base_year, out, lits>>
  /\ UNCHANGED dataVars
  /\ UNCHANGED genVars

\* generate_offset_dataset(offset_days, force): the test of offset_days
\* and of data_dir.exists()
Generate_start(p) ==
  /\ procs[p].call = "generate_offset_dataset"
  /\ OneCallIdle
  /\ procs[p].pc = "start"
  /\ UNCHANGED <<disk, runs, verdicts>>
  /\ procs' =
       [procs EXCEPT ![p] =
          IF @.offset_days = 0 THEN Raise(@, ValueError)
          ELSE IF disk[get_offset_data_dir(@.offset_days)].exists /\ ~@.force
            THEN Raise(@, FileExistsError)
          ELSE [@ EXCEPT !.pc = "src_exists"]]

\* the test of src_dir.exists()
Generate_src_exists(p) ==
  /\ procs[p].call = "generate_offset_dataset"
  /\ OneCallIdle
  /\ procs[p].pc = "src_exists"
  /\ UNCHANGED <<disk, runs, verdicts>>
  /\ procs' =
       [procs EXCEPT ![p] =
          IF disk[get_offset_src_dir(@.offset_days)].exists /\ ~@.force
            THEN Raise(@, FileExistsError)
          ELSE [@ EXCEPT !.pc = "mkdir_data"]]

\* data_dir.mkdir(parents=True, exist_ok=True)
Generate_mkdir_data(p) ==
  /\ procs[p].call = "generate_offset_dataset"
  /\ OneCallIdle
  /\ procs[p].pc = "mkdir_data"
  /\ UNCHANGED <<runs, verdicts>>
  /\ disk' = [disk EXCEPT
                ![get_offset_data_dir(procs[p].offset_days)].exists = TRUE]
  /\ procs' = [procs EXCEPT ![p].pc = "mkdir_src"]

\* src_dir.mkdir(parents=True, exist_ok=True)
Generate_mkdir_src(p) ==
  /\ procs[p].call = "generate_offset_dataset"
  /\ OneCallIdle
  /\ procs[p].pc = "mkdir_src"
  /\ UNCHANGED <<runs, verdicts>>
  /\ disk' = [disk EXCEPT
                ![get_offset_src_dir(procs[p].offset_days)].exists = TRUE]
  /\ procs' = [procs EXCEPT ![p].pc = "write"]

\* _generate_data_files and _generate_src_files: the next file is read
\* from the original, transformed and written; user_tools.py is copied
\* only when the original has it
Generate_write(p) ==
  /\ procs[p].call = "generate_offset_dataset"
  /\ OneCallIdle
  /\ procs[p].pc = "write"
  /\ UNCHANGED <<runs, verdicts>>
  /\ LET proc == procs[p]
         file == GENERATED_FILES[proc.k]
         path == IF file.dir = "data"
                   THEN get_offset_data_dir(proc.offset_days)
                   ELSE get_offset_src_dir(proc.offset_days)
     IN  IF file.reads /\ ~FileExists(disk[OriginalOf(file)], file.name)
           THEN /\ UNCHANGED disk
                /\ procs' =
                     [procs EXCEPT ![p] =
                        IF file.name = "user_tools.py" THEN AfterFile(proc)
                        ELSE Raise(proc, FileNotFoundError)]
         ELSE /\ disk' = [disk EXCEPT
                            ![path] = WriteFile(@, file.name,
                                                proc.offset_days)]
              /\ procs' = [procs EXCEPT ![p] = AfterFile(proc)]

\* one step of a generate_offset_dataset process
Generate(p) ==
  \/ Generate_start(p)
  \/ Generate_src_exists(p)
  \/ Generate_mkdir_data(p)
  \/ Generate_mkdir_src(p)
  \/ Generate_write(p)

\* no call is followed on its own
InitOneCallIdle ==
  /\ pc = "processes"
  /\ op = "processes"
  /\ text = <<>> /\ out = <<>> /\ lits = <<>>
  /\ days = 0
  /\ base_year = AIRLINE_BASE_YEAR
  /\ NoDataset

(***************************************************************************)
(* Two generate_offset_dataset processes at the same time                  *)
(***************************************************************************)
ParallelOffsets == {-365, 365}

InitParallel ==
  /\ InitOneCallIdle
  /\ \E d1, d2 \in ParallelOffsets : \E f1, f2 \in BOOLEAN :
       procs = <<Process("generate_offset_dataset", d1, f1, <<>>),
                 Process("generate_offset_dataset", d2, f2, <<>>)>>
  /\ \E generated \in SUBSET ParallelOffsets : \E user_tools \in BOOLEAN :
       disk = DiskWith(ParallelOffsets, generated, user_tools)
  /\ runs = <<>>
  /\ verdicts = <<>>

NextParallel == \E p \in 1..2 : Generate(p)

SpecParallel == InitParallel /\ [][NextParallel]_vars

(***************************************************************************)
(* Generation, validation and the experiment on one disk                   *)
(***************************************************************************)
\* RESULTS_BASE_DIR and get_results_dir
RESULTS_BASE_DIR == <<"DATA_DIR", "simulations", "time_ablation">>

\* the sign letter "p" whatever the sign
get_results_dir_Unsigned(offset_days) ==
  Append(RESULTS_BASE_DIR,
         <<"o","f","f","s","e","t","_","p">>
           \o StrOf(Abs(offset_days)) \o <<"d">>)

get_results_dir(offset_days) ==
  Append(RESULTS_BASE_DIR,
         <<"o","f","f","s","e","t","_">>
           \o <<IF offset_days >= 0 THEN "p" ELSE "n">>
           \o StrOf(Abs(offset_days)) \o <<"d">>)

\* the files is_offset_domain_generated requires in the source directory,
\* and the modules of the variant its environment.py imports
REQUIRED_SRC_FILES == {"__init__.py", "tools.py", "environment.py"}

ImportedModules == {"data_model.py", "tools.py", "utils.py"}

is_offset_domain_generated(offset_days) ==
  \/ offset_days = 0
  \/ /\ \A f \in DataFiles :
          FileExists(disk[get_offset_data_dir(offset_days)], f)
     /\ \A f \in REQUIRED_SRC_FILES :
          FileExists(disk[get_offset_src_dir(offset_days)], f)

\* importlib.import_module of the variant's environment succeeds
import_module(offset_days) ==
  \A f \in {"environment.py"} \cup ImportedModules :
    FileExists(disk[get_offset_src_dir(offset_days)], f)

\* register_offset_domain in the process: the process after it
register_offset_domain(proc, offset_days) ==
  IF get_offset_domain_name(offset_days) \in proc.registry THEN proc
  ELSE IF offset_days = 0 THEN proc
  ELSE IF ~is_offset_domain_generated(offset_days)
    THEN Raise(proc, ValueError)
  ELSE IF ~import_module(offset_days) THEN Raise(proc, ImportError)
  ELSE [proc EXCEPT
          !.registry = @ \cup {get_offset_domain_name(offset_days)}]

\* results[offset] = result_file
SetResult(results, offset, result_file) ==
  IF \E i \in 1..Len(results) : results[i][1] = offset
    THEN [i \in 1..Len(results) |->
            IF results[i][1] = offset THEN <<offset, result_file>>
            ELSE results[i]]
  ELSE Append(results, <<offset, result_file>>)

\* the file run_domain saves to: in the results directory of the offset,
\* named after the domain
ResultFile(offset) ==
  Append(get_results_dir(offset), get_offset_domain_name(offset))

\* validate_offset_dataset on the disk passes: the directory and the three
\* files are there and policy.md holds the time of this offset.  The data
\* of the original pass the other checks, shifted or not.
validation_passed(offset_days) ==
  /\ disk[get_offset_data_dir(offset_days)].exists
  /\ \A f \in DataFiles :
       FileExists(disk[get_offset_data_dir(offset_days)], f)
  /\ <<"policy.md", offset_days>>
       \in disk[get_offset_data_dir(offset_days)].files

\* generation is cut short: a signal, a full disk
Generate_interrupt(p) ==
  /\ procs[p].call = "generate_offset_dataset"
  /\ OneCallIdle
  /\ procs[p].pc \in {"mkdir_data", "mkdir_src", "write"}
  /\ procs' = [procs EXCEPT ![p] = Raise(@, KeyboardInterrupt)]
  /\ UNCHANGED <<disk, runs, verdicts>>

\* cmd_validate: validate_offset_dataset, the report, the exit code
Cmd_validate(p) ==
  /\ procs[p].call = "cmd_validate"
  /\ OneCallIdle
  /\ procs[p].pc = "start"
  /\ verdicts' = Append(verdicts,
                        [offset |-> procs[p].offset_days,
                         passed |-> validation_passed(procs[p].offset_days)])
  /\ procs' = [procs EXCEPT
                 ![p].pc = "done",
                 ![p].out = IF validation_passed(procs[p].offset_days)
                              THEN 0 ELSE 1]
  /\ UNCHANGED <<disk, runs>>

\* run_ablation_experiment: the first loop, one offset
Run_check(p) ==
  /\ procs[p].call = "run_ablation_experiment"
  /\ OneCallIdle
  /\ procs[p].pc = "start"
  /\ procs' =
       [procs EXCEPT ![p] =
          IF @.offsets[@.k] # 0 /\ ~is_offset_domain_generated(@.offsets[@.k])
            THEN Raise(@, ValueError)
          ELSE IF @.k = Len(@.offsets)
            THEN [@ EXCEPT !.pc = "make_run_config", !.k = 1]
          ELSE [@ EXCEPT !.k = @ + 1]]
  /\ UNCHANGED <<disk, runs, verdicts>>

\* the second loop: make_run_config registers the domain of the offset
Run_make_run_config(p) ==
  /\ procs[p].call = "run_ablation_experiment"
  /\ OneCallIdle
  /\ procs[p].pc = "make_run_config"
  /\ procs' =
       [procs EXCEPT ![p] =
          IF register_offset_domain(@, @.offsets[@.k]).pc = "raised"
            THEN register_offset_domain(@, @.offsets[@.k])
          ELSE [register_offset_domain(@, @.offsets[@.k])
                  EXCEPT !.pc = "run_domain"]]
  /\ UNCHANGED <<disk, runs, verdicts>>

\* the second loop: run_domain(config) and results[offset] = result_file;
\* after the last offset the results are returned
Run_run_domain(p) ==
  /\ procs[p].call = "run_ablation_experiment"
  /\ OneCallIdle
  /\ procs[p].pc = "run_domain"
  /\ runs' = Append(runs, procs[p].offsets[procs[p].k])
  /\ LET proc == procs[p]
         offset == proc.offsets[proc.k]
         results == SetResult(proc.results, offset, ResultFile(offset))
     IN  procs' =
           [procs EXCEPT ![p] =
              IF proc.k = Len(proc.offsets)
                THEN [proc EXCEPT !.results = results, !.pc = "done",
                                  !.out = results]
              ELSE [proc EXCEPT !.results = results, !.k = @ + 1,
                                !.pc = "make_run_config"]]
  /\ UNCHANGED <<disk, verdicts>>

\* the variants of `stale` hold the policy.md of the original
StaleIn(dsk, stale) ==
  [path \in DOMAIN dsk |->
     IF \E d \in stale : path = get_offset_data_dir(d)
       THEN WriteFile(dsk[path], "policy.md", 0)
     ELSE dsk[path]]

\* the lists of offsets of the experiment
RunOffsets ==
  {<<365>>, <<0, 365>>, <<365, -365>>, <<-365, 365>>, <<365, 365>>}

\* one generation, one validation and one experiment; each variant is
\* absent, generated, or generated with a stale policy.md
InitOrchestrate ==
  /\ InitOneCallIdle
  /\ \E d \in ParallelOffsets : \E f \in BOOLEAN :
     \E v \in ParallelOffsets : \E offsets \in RunOffsets :
       procs = <<Process("generate_offset_dataset", d, f, <<>>),
                 Process("cmd_validate", v, FALSE, <<>>),
                 Process("run_ablation_experiment", 0, FALSE, offsets)>>
  /\ \E generated \in SUBSET ParallelOffsets : \E stale \in SUBSET generated :
       disk = StaleIn(DiskWith(ParallelOffsets, generated, TRUE), stale)
  /\ runs = <<>>
  /\ verdicts = <<>>

NextOrchestrate ==
  \/ Generate(1)
  \/ Generate_interrupt(1)
  \/ Cmd_validate(2)
  \/ Run_check(3)
  \/ Run_make_run_config(3)
  \/ Run_run_domain(3)

SpecOrchestrate == InitOrchestrate /\ [][NextOrchestrate]_vars

(***************************************************************************)
(* Names read back                                                         *)
(***************************************************************************)
\* the end of the longest run of digits of s from k on (k - 1: none)
DigitsEnd(s, k) ==
  CHOOSE e \in (k - 1)..Len(s) :
    /\ AllDigits(s, k, e)
    /\ e = Len(s) \/ ~IsDigit(s[e + 1])

\* the pattern  <prefix>([pn])(\d+)d  matches s at i
OffsetPatternAt(s, i, prefix) ==
  /\ StartsWithAt(s, i, prefix)
  /\ i + Len(prefix) <= Len(s)
  /\ s[i + Len(prefix)] \in {"p", "n"}
  /\ DigitsEnd(s, i + Len(prefix) + 1) >= i + Len(prefix) + 1
  /\ DigitsEnd(s, i + Len(prefix) + 1) < Len(s)
  /\ s[DigitsEnd(s, i + Len(prefix) + 1) + 1] = "d"

\* sign * int(match.group(2)) of the match at i
OffsetOfMatch(s, i, prefix) ==
  (IF s[i + Len(prefix)] = "p" THEN 1 ELSE 0 - 1)
    * IntOf(SubSeq(s, i + Len(prefix) + 1,
                   DigitsEnd(s, i + Len(prefix) + 1)))

\* parse_offset_from_path: re.search(r"offset_([pn])(\d+)d", str(path)),
\* the leftmost match; <<offset>>, or None.  The pattern has no "/", so a
\* match lies in one part of the path, and the parts of RESULTS_BASE_DIR
\* hold none: the search is the one in the last part.
parse_offset_from_path(path) ==
  LET s == path[Len(path)]
      prefix == <<"o","f","f","s","e","t","_">>
      found == {i \in 1..Len(s) : OffsetPatternAt(s, i, prefix)}
  IN  IF found = {} THEN None
      ELSE <<OffsetOfMatch(s, CHOOSE i \in found : \A j \in found : i <= j,
                           prefix)>>

RECURSIVE sorted(_)
\* sorted() of integers
sorted(S) ==
  IF S = {} THEN <<>>
  ELSE LET least == CHOOSE x \in S : \A y \in S : x <= y
       IN  <<least>> \o sorted(S \ {least})

\* list_generated_offset_domains: of the directories in OFFSET_DATA_DIR
\* whose name starts with "airline_offset_" and matches
\* airline_offset_([pn])(\d+)d at its beginning, the offsets read from the
\* name for which is_offset_domain_generated holds, sorted
list_generated_offset_domains ==
  sorted({OffsetOfMatch(path[Len(path)], 1, AirlineOffset) :
            path \in {q \in DOMAIN disk :
                        /\ SubSeq(q, 1, Len(q) - 1) = OFFSET_DATA_DIR
                        /\ disk[q].exists
                        /\ OffsetPatternAt(q[Len(q)], 1, AirlineOffset)
                        /\ is_offset_domain_generated(
                             OffsetOfMatch(q[Len(q)], 1, AirlineOffset))}})

\* the variants of days and of -days are on the disk or not; a results
\* directory is named for days
InitRoundTrip ==
  /\ pc = "call"
  /\ op \in {"list_generated_offset_domains", "get_results_dir"}
  /\ days \in NameOffsets
  /\ text = <<>> /\ out = <<>> /\ lits = <<>>
  /\ base_year = AIRLINE_BASE_YEAR
  /\ NoDataset
  /\ procs = <<>> /\ runs = <<>> /\ verdicts = <<>>
  /\ \E generated \in SUBSET ({days, 0 - days} \ {0}) :
       disk = DiskWith({days, 0 - days}, generated, TRUE)

Call_list_generated_offset_domains ==
  /\ pc = "call" /\ op = "list_generated_offset_domains"
  /\ out' = list_generated_offset_domains
  /\ pc' = "done"
  /\ UNCHANGED <<op, text, days, base_year, lits>>
  /\ UNCHANGED dataVars
  /\ UNCHANGED genVars
  /\ UNCHANGED orchVars

Call_get_results_dir ==
  /\ pc = "call" /\ op = "get_results_dir"
  /\ out' = get_results_dir(days)
  /\ pc' = "call"
  /\ op' = "parse_offset_from_path"
  /\ UNCHANGED <<text, days, base_year, lits>>
  /\ UNCHANGED dataVars
  /\ UNCHANGED genVars
  /\ UNCHANGED orchVars

\* the directory returned is parsed
Call_parse_offset_from_path ==
  /\ pc = "call" /\ op = "parse_offset_from_path"
  /\ out' = parse_offset_from_path(out)
  /\ pc' = "done"
  /\ UNCHANGED <<op, text, days, base_year, lits>>
  /\ UNCHANGED dataVars
  /\ UNCHANGED genVars
  /\ UNCHANGED orchVars

NextRoundTrip ==
  \/ Call_list_generated_offset_domains
  \/ Call_get_results_dir
  \/ Call_parse_offset_from_path

SpecRoundTrip == InitRoundTrip /\ [][NextRoundTrip]_vars

(***************************************************************************)
(* The structured transformer and the validator on a dataset               *)
(***************************************************************************)
\* the day an ISO date key names
DayOfKey(key) ==
  [y |-> IntOf(SubSeq(key, 1, 4)), m |-> IntOf(SubSeq(key, 6, 7)),
   d |-> IntOf(SubSeq(key, 9, 10))]

\* the key of the day n days after the day of `key`
ShiftedKey(key, n) ==
  DayText(CalendarShift(DayOfKey(key).y, DayOfKey(key).m, DayOfKey(key).d, n))

\* the flight dates an action's arguments refer to: the items of its
\* "flights" list
FlightRefs(arguments) ==
  IF DictHas(arguments, K_flights)
    THEN LET items == DictGet(arguments, K_flights).v
         IN  [k \in 1..Len(items) |->
                [flight_number |-> DictGet(items[k].v, K_flight_number).v,
                 date |-> DictGet(items[k].v, K_date).v]]
    ELSE <<>>

\* every flight date the tasks' actions refer to is a key of the dates
\* mapping of the flight it is given for
Resolvable(db_data, tasks_data) ==
  \A i \in 1..Len(tasks_data) : \A a \in 1..Len(tasks_data[i].actions) :
    LET refs == FlightRefs(tasks_data[i].actions[a].arguments)
    IN  \A k \in 1..Len(refs) :
          /\ DictHas(db_data.flights, refs[k].flight_number)
          /\ DictHas(DictGet(db_data.flights, refs[k].flight_number).dates,
                     refs[k].date)

NoFlightDateError(res) ==
  \A k \in 1..Len(res.errors) :
    res.errors[k].check # "Flight date not found in db.json"

\* C1: when every flight date in the original tasks' action arguments is
\* a key of the referenced flight's dates mapping, then in the generated
\* variant every such argument is a key of the same flight's transformed
\* mapping and validation records no flight-date error.
C1_FlightDatesResolveAndValidate ==
  (pc = "done" /\ Resolvable(db, tasks)) =>
    /\ Resolvable(variant.db, variant.tasks)
    /\ NoFlightDateError(report)

\* C2: after transform_db each flight's dates mapping has as many keys as
\* the original, all distinct; the shifted key of every original key is
\* there and maps to the transformed status of that original key.
C2_DatesMappingRebuilt ==
  "db.json" \in variant.files =>
    \A i \in 1..Len(db.flights) :
      LET old == db.flights[i][2].dates
          new == variant.db.flights[i][2].dates
      IN  /\ variant.db.flights[i][1] = db.flights[i][1]
          /\ Len(new) = Len(old)
          /\ \A j, k \in 1..Len(new) : j # k => new[j][1] # new[k][1]
          /\ \A k \in 1..Len(old) :
               /\ DictHas(new, ShiftedKey(old[k][1], days))
               /\ DictGet(new, ShiftedKey(old[k][1], days))
                    = _transform_flight_status(old[k][2], days)

\* keys 2024-05-30 and 2024-05-31 shifted by one day: the first lands on
\* the second's old key
C2_Witness ==
  /\ "db.json" \in variant.files
  /\ days = 1
  /\ DictKeys(db.flights[1][2].dates)
       = <<IsoDateText(2024, 5, 30), IsoDateText(2024, 5, 31)>>
  /\ DictKeys(variant.db.flights[1][2].dates)
       = <<IsoDateText(2024, 5, 31), IsoDateText(2024, 6, 1)>>
  /\ variant.db.flights[1][2].dates[1][2].actual_arrival_time_est
       = IsoDateText(2024, 6, 1) \o <<"T">> \o TimeText(0, 40, 0)

(***************************************************************************)
(* The date pattern engine on one literal                                  *)
(***************************************************************************)
Called(f) == pc = "done" /\ op = f

\* C3: for a valid ISO date and any offset, offset_iso_date returns the
\* day `days` days later on the calendar (month ends, year ends and leap
\* days included), written as a zero-padded YYYY-MM-DD.
C3_IsoDateIsCalendarShift ==
  (Called("offset_iso_date") /\ ValidLit(lits[1], base_year)) =>
    LET s == Shifted(lits[1], days, base_year)
    IN  out = IsoDateText(s.y, s.m, s.d)

\* 2024-05-31 + 1 = 2024-06-01
C3_Witness ==
  /\ Called("offset_iso_date")
  /\ text = IsoDateText(2024, 5, 31) /\ days = 1
  /\ out = IsoDateText(2024, 6, 1)

\* C4: shifting a valid ISO date by n and the result by -n gives the date
\* back, and the intermediate result is a string the ISO-date pattern and
\* strptime accept.
C4_IsoDateRoundTrip ==
  (Called("offset_iso_date") /\ ValidLit(lits[1], base_year)) =>
    /\ IsoDateMatchLen(out, 1) = Len(out)
    /\ Strptime(out, FALSE).ok
    /\ offset_iso_date(out, -days) = text

\* 2024-05-12 + 365 = 2025-05-12, and 2025-05-12 - 365 = 2024-05-12
C4_Witness ==
  /\ Called("offset_iso_date")
  /\ text = IsoDateText(2024, 5, 12) /\ days = 365
  /\ out = IsoDateText(2025, 5, 12)
  /\ offset_iso_date(out, -365) = text

\* C5: for a valid ISO timestamp and any offset, offset_iso_timestamp
\* returns the date part moved by `days` days and the HH:MM:SS part as it
\* was.
C5_TimestampKeepsTimeOfDay ==
  (Called("offset_iso_timestamp") /\ ValidLit(lits[1], base_year)) =>
    LET f == lits[1]
        s == Shifted(f, days, base_year)
    IN  out = IsoDateText(s.y, s.m, s.d) \o <<"T">> \o TimeText(f.H, f.M, f.S)

\* 2024-05-31T23:59:59 + 1 = 2024-06-01T23:59:59
C5_Witness ==
  /\ Called("offset_iso_timestamp")
  /\ text = IsoDateText(2024, 5, 31) \o <<"T">> \o TimeText(23, 59, 59)
  /\ days = 1
  /\ out = IsoDateText(2024, 6, 1) \o <<"T">> \o TimeText(23, 59, 59)

\* a text date of day d of month m, with the year y when withYear, the
\* month name in either form
TextDateTexts(y, m, d, withYear) ==
  {MonthWord(m, sh) \o <<" ">> \o Plain(d)
     \o (IF withYear THEN <<" ">> \o Four(y) ELSE <<>>) : sh \in BOOLEAN}

\* C6: offset_text_dates replaces a valid text date by the text date of
\* the day `days` days later, counted from the literal's own year when it
\* has one and from base_year otherwise; the result carries a year exactly
\* when the literal did, and the text before it is kept.
C6_TextDateIsCalendarShift ==
  (Called("offset_text_dates") /\ ValidLit(lits[2], base_year)) =>
    LET f == lits[2]
        s == Shifted(f, days, base_year)
    IN  \E r \in TextDateTexts(s.y, s.m, s.d, f.kind = "text_date_with_year") :
          out = lits[1].chars \o r

\* "Book for May 31" + 1 in base year 2024 = "Book for June 1"
C6_Witness ==
  /\ Called("offset_text_dates")
  /\ lits[1].chars # <<>>
  /\ lits[2] = Lit("text_date_no_year", 2024, 5, 31, 0, 0, 0, FALSE)
  /\ days = 1 /\ base_year = 2024
  /\ out = lits[1].chars \o MONTH_NAMES[6] \o <<" ", "1">>

\* C7: with offset 0 every date function returns a valid literal of any
\* of the four formats unchanged, character for character.
C7_OffsetZeroIsIdentity ==
  (pc = "done" /\ days = 0
     /\ \A i \in 1..Len(lits) :
          IsDateLit(lits[i]) => ValidLit(lits[i], base_year))
    => out = text

(***************************************************************************)
(* The date pattern engine on a scanned text                               *)
(***************************************************************************)
\* The literal f moved by n days: a separator and a literal that names no
\* day of the calendar stay as they are; a text date keeps its month-name
\* form unless full.
ShiftedLit(f, n, by, full) ==
  IF f.kind = "sep" \/ ~ValidLit(f, by) THEN f
  ELSE LET s == Shifted(f, n, by)
       IN  [f EXCEPT !.y = s.y, !.m = s.m, !.d = s.d,
                     !.short = f.short /\ ~full]

\* the text in which every literal of fs is moved by n days exactly once
ShiftedOnce(fs, n, by, full) ==
  Concat([i \in 1..Len(fs) |-> ShiftedLit(fs[i], n, by, full)])

\* the same, the month names in the form of the input or in full
ExpectedTexts(fs, n, by) == {ShiftedOnce(fs, n, by, full) : full \in BOOLEAN}

AllValid(fs, by) ==
  \A i \in 1..Len(fs) : IsDateLit(fs[i]) => ValidLit(fs[i], by)

HasValid(fs, kind, by) ==
  \E i \in 1..Len(fs) : fs[i].kind = kind /\ ValidLit(fs[i], by)

\* no literal of fs is followed by a single space
WellSeparated(fs) == \A i \in 1..Len(fs) : fs[i].kind = "sep" => Len(fs[i].chars) > 1

\* C8: a scanned text holding a date-shaped substring that is no calendar
\* date (February 30, 2024-02-30) raises no exception; that substring is
\* returned as it was and every other literal of the text is still shifted.
C8_InvalidDateFailsSoft ==
  (Called("offset_all_dates_in_text") /\ ~AllValid(lits, base_year)
     /\ WellSeparated(lits))
    => /\ ~IsException(out)
       /\ out \in ExpectedTexts(lits, days, base_year)

\* C9: in a scanned text holding both an ISO timestamp and a bare ISO
\* date, the timestamp comes out shifted by the offset with its time of
\* day, the bare date comes out shifted by the offset, and nothing else of
\* the timestamp is touched.
C9_TimestampAndDateBothShift ==
  (Called("offset_all_dates_in_text") /\ AllValid(lits, base_year)
     /\ HasValid(lits, "iso_timestamp", base_year)
     /\ HasValid(lits, "iso_date", base_year))
    => out \in ExpectedTexts(lits, days, base_year)

\* C10: in a scanned text of valid literals every literal is shifted
\* exactly once: the output is the input with each literal replaced by
\* the date `days` days later, whichever passes ran before.
C10_EveryLiteralShiftedOnce ==
  (Called("offset_all_dates_in_text") /\ AllValid(lits, base_year))
    => out \in ExpectedTexts(lits, days, base_year)

\* the characters a shifted date literal is written in
DateChars ==
  {Digits[i] : i \in 1..Len(Digits)} \cup Letters \cup {"-", ":", " "}

RECURSIVE FrameKept(_, _)
\* o is the text written from fs with each separator as it is, in its
\* place, and each date literal replaced by some date text
FrameKept(fs, o) ==
  IF fs = <<>> THEN o = <<>>
  ELSE IF Head(fs).kind = "sep"
    THEN /\ Len(o) >= Len(Head(fs).chars)
         /\ SubSeq(o, 1, Len(Head(fs).chars)) = Head(fs).chars
         /\ FrameKept(Tail(fs), SubSeq(o, Len(Head(fs).chars) + 1, Len(o)))
  ELSE \E k \in 1..Len(o) :
         /\ \A j \in 1..k : o[j] \in DateChars
         /\ FrameKept(Tail(fs), SubSeq(o, k + 1, Len(o)))

NoDateLit(fs) == \A i \in 1..Len(fs) : fs[i].kind = "sep"

\* C11: offset_all_dates_in_text returns a text in which every character
\* outside the date literals of the input stands unchanged and in the same
\* order, and a text without a date literal is returned identical.
C11_TextOutsideLiteralsKept ==
  Called("offset_all_dates_in_text")
    => /\ ~IsException(out)
       /\ FrameKept(lits, out)
       /\ NoDateLit(lits) => out = text

\* the same for the calls that return: no exception leaves the function
FrameKeptOnReturn ==
  (Called("offset_all_dates_in_text") /\ ~IsException(out))
    => /\ FrameKept(lits, out)
       /\ NoDateLit(lits) => out = text

(***************************************************************************)
(* The inputs of the structured transformer                                *)
(***************************************************************************)
\* C12: after transform_db or transform_tasks returned, the object it was
\* given reads as it did before the call, no dict or list of the returned
\* structure is one of the input, and the returned structure is the
\* transformed dataset.
C12_InputNotMutated ==
  (pc = "done" /\ op \in {"transform_db", "transform_tasks"})
    => /\ Read(heap.cells, heap.input) = Read(heap.before, heap.input)
       /\ heap.result.t = "ref"
       /\ Reach(heap.cells, heap.result) \cap Reach(heap.cells, heap.input)
            = {}
       /\ Read(heap.cells, heap.result)
            = IF op = "transform_db" THEN DbJson(transform_db(db, days))
              ELSE TasksJson(transform_tasks(tasks, days))

\* transform_db returned a dataset of other dates than the one it was
\* given, a landed flight among them
C12_Witness ==
  /\ pc = "done" /\ op = "transform_db" /\ days = 365
  /\ db = DbOf(<<[y |-> 2024, m |-> 5, d |-> 31]>>, "landed")
  /\ Read(heap.cells, heap.result) # Read(heap.cells, heap.input)
  /\ Read(heap.cells, heap.input) = DbJson(db)

(***************************************************************************)
(* Flight date keys and the timestamps of their statuses                   *)
(***************************************************************************)
\* the day of the date part of an ISO timestamp
DayOfTimestamp(ts) == DayOfKey(SubSeq(ts, 1, 10))

\* how many days after the day of `key` the day of `ts` is, when that is
\* between one day before and two days after
DaysAfterKey(key, ts) ==
  {d \in -1..2 :
     CalendarShift(DayOfKey(key).y, DayOfKey(key).m, DayOfKey(key).d, d)
       = DayOfTimestamp(ts)}

\* the status under the shifted key of `key` has its populated field
\* shifted by as many days as the key
ShiftedWithKey(new, key, old_ts, field, n) ==
  LET new_key == ShiftedKey(key, n)
      new_ts == DictGet(new, new_key)[field]
  IN  /\ new_ts # None
      /\ SubSeq(new_ts, 1, 10) = ShiftedKey(SubSeq(old_ts, 1, 10), n)
      /\ SubSeq(new_ts, 11, Len(new_ts)) = SubSeq(old_ts, 11, Len(old_ts))
      /\ DaysAfterKey(new_key, new_ts) = DaysAfterKey(key, old_ts)
      /\ DaysAfterKey(key, old_ts) \cap {0, 1} # {}
           => DaysAfterKey(new_key, new_ts) \cap {0, 1} # {}

\* C13: for every flight date entry transform_db shifts the key and each
\* populated timestamp field of its status by the same number of days:
\* the timestamp's day is as many days after its key as before, and a
\* difference of 0 or 1 day stays 0 or 1 day.
C13_TimestampsFollowKey ==
  "db.json" \in variant.files =>
    \A i \in 1..Len(db.flights) :
      \A k \in 1..Len(db.flights[i][2].dates) :
        LET old == db.flights[i][2].dates[k]
            new == variant.db.flights[i][2].dates
        IN  /\ DictHas(new, ShiftedKey(old[1], days))
            /\ \A f \in 1..Len(timestamp_fields) :
                 old[2][timestamp_fields[f]] # None
                   => ShiftedWithKey(new, old[1], old[2][timestamp_fields[f]],
                                     timestamp_fields[f], days)

\* a flight of 2024-05-31 landed past midnight, a year (365 days) earlier:
\* the key is 2023-06-01 and the arrival is on 2023-06-02
C13_Witness ==
  /\ "db.json" \in variant.files
  /\ days = -365
  /\ db.flights[1][2].dates[1][1] = IsoDateText(2024, 5, 31)
  /\ db.flights[1][2].dates[1][2].actual_arrival_time_est
       = IsoDateText(2024, 6, 1) \o <<"T">> \o TimeText(0, 40, 0)
  /\ variant.db.flights[1][2].dates[1][1] = IsoDateText(2023, 6, 1)
  /\ variant.db.flights[1][2].dates[1][2].actual_arrival_time_est
       = IsoDateText(2023, 6, 2) \o <<"T">> \o TimeText(0, 40, 0)
  /\ variant.db.flights[1][2].dates[1][2].actual_departure_time_est
       = IsoDateText(2023, 6, 1) \o <<"T">> \o TimeText(22, 15, 0)

(***************************************************************************)
(* The arguments of the actions                                            *)
(***************************************************************************)
\* a string of the form YYYY-MM-DD
IsoDateLiteral(v) ==
  /\ Len(v) = 10
  /\ \A i \in 1..10 : IF i \in {5, 8} THEN v[i] = "-" ELSE IsDigit(v[i])

\* a string of the form YYYY-MM-DDTHH:MM:SS
IsoTimestampLiteral(v) ==
  /\ Len(v) = 19
  /\ IsoDateLiteral(SubSeq(v, 1, 10))
  /\ v[11] = "T"
  /\ \A i \in 12..19 : IF i \in {14, 17} THEN v[i] = ":" ELSE IsDigit(v[i])

RECURSIVE ShiftedArgument(_, _)
\* a value of the arguments with every ISO date and ISO timestamp in it,
\* however deep, n days later
ShiftedArgument(value, n) ==
  CASE value.t = "str" /\ IsoDateLiteral(value.v) ->
         Str(ShiftedKey(value.v, n))
    [] value.t = "str" /\ IsoTimestampLiteral(value.v) ->
         Str(ShiftedKey(SubSeq(value.v, 1, 10), n) \o SubSeq(value.v, 11, 19))
    [] value.t = "list" ->
         List([i \in 1..Len(value.v) |-> ShiftedArgument(value.v[i], n)])
    [] value.t = "dict" ->
         Dict([i \in 1..Len(value.v) |->
                 <<value.v[i][1], ShiftedArgument(value.v[i][2], n)>>])
    [] OTHER -> value

\* result[i]["evaluation_criteria"]["actions"][a]["arguments"]
ArgumentsOf(tree, i, a) ==
  DictGet(DictGet(DictGet(tree.v[i].v, "evaluation_criteria").v, "actions")
            .v[a].v,
          "arguments")

RECURSIVE InListOnlyDatesAndMappings(_, _)
\* no timestamp and no list stands directly in a list of the value
InListOnlyDatesAndMappings(value, in_list) ==
  CASE value.t = "str" -> ~(in_list /\ IsoTimestampLiteral(value.v))
    [] value.t = "list" ->
         /\ ~in_list
         /\ \A i \in 1..Len(value.v) :
              InListOnlyDatesAndMappings(value.v[i], TRUE)
    [] value.t = "dict" ->
         \A i \in 1..Len(value.v) :
           InListOnlyDatesAndMappings(value.v[i][2], FALSE)
    [] OTHER -> TRUE

\* C14: transform_tasks shifts every string of an action's arguments that
\* is an ISO date or an ISO timestamp, at any depth and in any position
\* (value of a mapping, element of a list, in a list inside a list, in a
\* mapping inside a list), and leaves every other value as it is.
C14_NestedArgumentsShifted ==
  (pc = "done" /\ op = "transform_tasks") =>
    \A i \in 1..Len(tasks) : \A a \in 1..Len(tasks[i].actions) :
      ArgumentsOf(Read(heap.cells, heap.result), i, a)
        = ShiftedArgument(Dict(tasks[i].actions[a].arguments), days)

\* the same for the arguments whose lists hold dates and mappings only
ArgumentsShiftedOutsideLists ==
  (pc = "done" /\ op = "transform_tasks") =>
    \A i \in 1..Len(tasks) : \A a \in 1..Len(tasks[i].actions) :
      InListOnlyDatesAndMappings(Dict(tasks[i].actions[a].arguments), FALSE)
        => ArgumentsOf(Read(heap.cells, heap.result), i, a)
             = ShiftedArgument(Dict(tasks[i].actions[a].arguments), days)

(***************************************************************************)
(* Offsets applied one after the other                                     *)
(***************************************************************************)
\* C15: transform_db with offset a and then, on its result, with offset b
\* returns the same flights (numbers, date keys in their order, statuses)
\* as transform_db with offset a + b on the original dataset.
C15_OffsetsCompose ==
  (pc = "compose" /\ Len(out) = 2) =>
    /\ days = out[1] + out[2]
    /\ variant.db.flights = transform_db(db, out[1] + out[2]).flights

\* 365 days back from 2024-05-31 and one day forth: the key is 2023-06-02,
\* the arrival past midnight is on 2023-06-03
C15_Witness ==
  /\ pc = "compose"
  /\ out = <<-365, 1>>
  /\ db.flights[1][2].dates[1][1] = IsoDateText(2024, 5, 31)
  /\ variant.db.flights[1][2].dates[1][1] = IsoDateText(2023, 6, 2)
  /\ variant.db.flights[1][2].dates[1][2].actual_arrival_time_est
       = IsoDateText(2023, 6, 3) \o <<"T">> \o TimeText(0, 40, 0)

(***************************************************************************)
(* What generate_offset_dataset refuses                                    *)
(***************************************************************************)
\* C16: generate_offset_dataset raises ValueError for the offset 0 and
\* FileExistsError when the data directory or the source directory of the
\* variant exists and force is false; when it raises, no directory and no
\* file has been made or changed.
C16_RefusesBeforeWriting ==
  [][pc = "generate" =>
       /\ days = 0 => pc' = "raised" /\ out' = ValueError
       /\ (days # 0 /\ ~force /\ (variant.exists \/ src_dir.exists))
            => pc' = "raised" /\ out' = FileExistsError
       /\ pc' = "raised" => variant' = variant /\ src_dir' = src_dir
       /\ (days # 0 /\ (force \/ (~variant.exists /\ ~src_dir.exists)))
            => pc' = "transform_db"]_vars

\* the source directory of the variant is there, the data directory is
\* not, force is false: FileExistsError, and no data directory is made
C16_Witness ==
  /\ pc = "raised" /\ out = FileExistsError
  /\ days = 365 /\ ~force
  /\ variant = NoDir
  /\ src_dir = OldSrcDir

(***************************************************************************)
(* The names of a variant                                                  *)
(***************************************************************************)
\* name is "airline_offset_", the sign, the decimal writing of n without
\* leading zero, and "d"
HasSuffix(name, sign, n) ==
  \E k \in 1..4 :
    /\ Len(name) = Len(AirlineOffset) + k + 2
    /\ SubSeq(name, 1, Len(AirlineOffset)) = AirlineOffset
    /\ name[Len(AirlineOffset) + 1] = sign
    /\ AllDigits(name, Len(AirlineOffset) + 2, Len(name) - 1)
    /\ name[Len(AirlineOffset) + 2] # "0"
    /\ IntOf(SubSeq(name, Len(AirlineOffset) + 2, Len(name) - 1)) = n
    /\ name[Len(name)] = "d"

\* the name of the variant of `offset_days`
IsVariantName(name, offset_days) ==
  /\ offset_days = 0 => name = Airline
  /\ offset_days > 0 => HasSuffix(name, "p", offset_days)
  /\ offset_days < 0 => HasSuffix(name, "n", 0 - offset_days)

\* C17: get_offset_domain_name gives "airline" for the offset 0, and the
\* name ending in p<d>d for an offset d > 0 and in n<|d|>d for d < 0; the
\* last part of the data directory and of the source directory is that
\* name.
C17_VariantNames ==
  /\ Called("get_offset_domain_name") => IsVariantName(out, days)
  /\ Called("get_offset_data_dir")
       => /\ IsVariantName(out[Len(out)], days)
          /\ SubSeq(out, 1, Len(out) - 1) = OFFSET_DATA_DIR
  /\ Called("get_offset_src_dir")
       => /\ IsVariantName(out[Len(out)], days)
          /\ SubSeq(out, 1, Len(out) - 1) = SRC_DIR \o <<"tau2", "domains">>

\* the source directory of the variant of -365 days is
\* SRC_DIR/tau2/domains/airline_offset_n365d
C17_Witness ==
  /\ Called("get_offset_src_dir")
  /\ days = -365
  /\ out[Len(out)] = AirlineOffset \o <<"n", "3", "6", "5", "d">>

\* the year of an ISO date literal
YearOfDate(date) == IntOf(SubSeq(date, 1, 4))

\* the dates mapping of some flight of db.json has the key `date`
IsFlightDateKey(db_data, date) ==
  \E i \in 1..Len(db_data.flights) :
    \E k \in 1..Len(db_data.flights[i][2].dates) :
      db_data.flights[i][2].dates[k][1] = date

\* the result has the fatal error that names the task and the date
HasFlightDateError(res, id, date) ==
  \E k \in 1..Len(res.errors) :
    res.errors[k] = Message("Flight date not found in db.json", id, date)

\* the ISO date literals among the strings of the arguments of the actions
\* of a task
ArgumentDates(task) ==
  {date \in UNION {{StringsOfValue(Dict(task.actions[a].arguments))[k] :
                      k \in 1..Len(StringsOfValue(
                                     Dict(task.actions[a].arguments)))} :
                   a \in 1..Len(task.actions)} :
     IsoDateLiteral(date)}

\* the flight-date errors of the validated variant are those of the dates
\* of the arguments whose year is in `years` and that are no flight-date
\* key; a date of a year before 2020 has none
MissingDatesReported(years) ==
  pc = "done" =>
    \A i \in 1..Len(variant.tasks) :
      \A date \in ArgumentDates(variant.tasks[i]) :
        /\ (YearOfDate(date) \in years /\ ~IsFlightDateKey(variant.db, date))
             => HasFlightDateError(report, variant.tasks[i].id, date)
        /\ YearOfDate(date) < 2020
             => ~HasFlightDateError(report, variant.tasks[i].id, date)

\* C18: the validator records a fatal error naming the task id and the
\* date for every ISO date literal of a year from 2020 upward (2030 and
\* later included) in a task's action arguments that is not among the
\* variant's flight-date keys; a date of a year below 2020 never produces
\* this error.
C18_MissingFlightDatesReported == MissingDatesReported(2020..9999)

\* the same for the years 2020 to 2029 only, and a date of 2030 or later
\* never has the error
MissingFlightDatesReportedIn2020s ==
  /\ MissingDatesReported(2020..2029)
  /\ pc = "done" =>
       \A i \in 1..Len(variant.tasks) :
         \A date \in ArgumentDates(variant.tasks[i]) :
           YearOfDate(date) >= 2030
             => ~HasFlightDateError(report, variant.tasks[i].id, date)

\* a date of 2029 that is no key has been reported
MissingDateOf2029Reported ==
  /\ pc = "done"
  /\ ~IsFlightDateKey(variant.db, IsoDateText(2029, 5, 31))
  /\ HasFlightDateError(report, Task0, IsoDateText(2029, 5, 31))

\* the dates of birth of db.json: of the users and, when with_passengers,
\* of the users' saved passengers and of the reservations' passengers
DobsOf(db_data, with_passengers) ==
  {db_data.users[i][2].dob : i \in 1..Len(db_data.users)}
    \cup (IF with_passengers
            THEN UNION {{db_data.users[i][2].passengers[k].dob :
                           k \in 1..Len(db_data.users[i][2].passengers)} :
                        i \in 1..Len(db_data.users)}
                 \cup UNION {{db_data.reservations[i][2].passengers[k].dob :
                                k \in 1..Len(db_data.reservations[i][2]
                                               .passengers)} :
                             i \in 1..Len(db_data.reservations)}
            ELSE {})

\* the calendar day a is after the calendar day b
IsAfterDay(a, b) ==
  \/ a.y > b.y
  \/ a.y = b.y /\ a.m > b.m
  \/ a.y = b.y /\ a.m = b.m /\ a.d > b.d

\* the checks that record a date of birth in the future
FutureDobChecks == {"DOB is in the future (current date)",
                    "DOB is in the future"}

\* the result has a fatal error for a date of birth in the future
HasFutureDobError(res) ==
  \E k \in 1..Len(res.errors) : res.errors[k].check \in FutureDobChecks

\* the result has a fatal error that quotes the date of birth
HasErrorOn(res, dob) ==
  \E k \in 1..Len(res.errors) : res.errors[k].value = dob

\* the verdict of the validator on the dates of birth of the variant, the
\* passengers' ones counted or not: one after the current date, 2024-05-15
\* shifted by the offset, is fatal; the current date itself is no error;
\* an age over 150 years is a warning and no error; with no date of birth
\* after the current date and no flight date missing the variant passes
DobChecks(with_passengers) ==
  pc = "done" =>
    /\ (\E dob \in DobsOf(variant.db, with_passengers) :
          IsAfterDay(DayOfKey(dob), CurrentDay(days)))
         => ~report.passed /\ HasFutureDobError(report)
    /\ (\A dob \in DobsOf(variant.db, with_passengers) :
          ~IsAfterDay(DayOfKey(dob), CurrentDay(days)))
         => /\ ~HasFutureDobError(report)
            /\ NoFlightDateError(report) => report.passed
    /\ \A i \in 1..Len(variant.db.users) :
         /\ variant.db.users[i][2].dob = DayText(CurrentDay(days))
              => ~HasErrorOn(report, variant.db.users[i][2].dob)
         /\ CurrentDay(days).y - DayOfKey(variant.db.users[i][2].dob).y > 151
              => /\ ~HasErrorOn(report, variant.db.users[i][2].dob)
                 /\ \E k \in 1..Len(report.warnings) :
                      report.warnings[k] =
                        Message("DOB results in age > 150 years",
                                variant.db.users[i][1],
                                variant.db.users[i][2].dob)

\* C20: the current date of the variant is 2024-05-15 shifted by the
\* offset; any date of birth in the variant (of a user, of a user's
\* passenger or of a reservation passenger) strictly after it makes
\* validation fail with a fatal error, a date of birth equal to it is no
\* error, and an age over 150 years adds only a warning and leaves
\* pass/fail unchanged.
C20_FutureDobsFatal == DobChecks(TRUE)

\* the same for the dates of birth of the users only
UserDobsChecked == DobChecks(FALSE)

\* a user born the day after the current date has failed the validation
FutureUserDobFailed ==
  /\ pc = "done"
  /\ variant.db.users[1][2].dob = DayText(CurrentDay(days + 1))
  /\ ~report.passed

\* the flight date the one task of tasks.json refers to
StaleDate == FlightRefs(tasks[1].actions[1].arguments)[1].date

\* the flight-date errors of the result, in the order recorded
FlightDateErrorsOf(res) ==
  SelectSeq(res.errors,
            LAMBDA e : e.check = "Flight date not found in db.json")

\* validation has recorded one flight-date error, which names the task and
\* the date of the untransformed task, and does not pass
OneStaleDateError ==
  /\ FlightDateErrorsOf(report)
       = <<Message("Flight date not found in db.json", tasks[1].id,
                   StaleDate)>>
  /\ ~report.passed

\* C19: when only db.json is transformed by a non-zero offset and
\* tasks.json is left untransformed, validation of a variant with one task
\* referring to one flight date reports exactly one fatal flight-date
\* error, the error quotes the stale (unshifted) date, and the result
\* does not pass.
C19_StaleTaskReported ==
  (pc = "done" /\ days # 0 /\ Resolvable(db, tasks)) => OneStaleDateError

\* the same when the stale date is no key of the transformed db.json; when
\* it is one, no flight-date error is recorded and the variant passes
StaleTaskReportedUnlessKey ==
  (pc = "done" /\ days # 0 /\ Resolvable(db, tasks)) =>
    IF IsFlightDateKey(variant.db, StaleDate)
      THEN NoFlightDateError(report) /\ report.passed
      ELSE OneStaleDateError

\* a variant of +365 days whose task kept its date has its one error
StaleDateOfYearReported ==
  /\ pc = "done"
  /\ days = 365
  /\ Resolvable(db, tasks)
  /\ OneStaleDateError

\* a variant of one day whose task kept its date passes: the date is a
\* key of the transformed db.json too
StaleDateUnnoticed ==
  /\ pc = "done"
  /\ Resolvable(db, tasks)
  /\ IsFlightDateKey(variant.db, StaleDate)
  /\ report.passed

\* the day number of a calendar day: days since 0001-01-01, counted from
\* the leap year rule
DayNumber(day) ==
  365 * (day.y - 1) + (day.y - 1) \div 4 - (day.y - 1) \div 100
    + (day.y - 1) \div 400
    + Cardinality({<<m, d>> \in (1..12) \X (1..31) :
                     /\ d <= MonthLength(day.y, m)
                     /\ m < day.m \/ (m = day.m /\ d <= day.d)})

\* the populated timestamp fields of the statuses of db.json whose status
\* value is in `statuses`: the flight, the key date and the date part
PopulatedTimestamps(db_data, statuses) ==
  {[flight |-> db_data.flights[i][1],
    date |-> db_data.flights[i][2].dates[k][1],
    ts_date |-> SubSeq(db_data.flights[i][2].dates[k][2][timestamp_fields[f]],
                       1, 10)] :
     <<i, k, f>> \in
       {<<i, k, f>> \in (1..Len(db_data.flights)) \X (1..MaxDates)
                          \X (1..Len(timestamp_fields)) :
          /\ k <= Len(db_data.flights[i][2].dates)
          /\ db_data.flights[i][2].dates[k][2].status \in statuses
          /\ db_data.flights[i][2].dates[k][2][timestamp_fields[f]] # None}}

\* the result has the warning of the timestamp check for the flight and
\* the date part
HasDriftWarning(res, flight, ts_date) ==
  \E k \in 1..Len(res.warnings) :
    res.warnings[k] = Message("date differs", flight, ts_date)

\* the verdict of the validator on the populated timestamps of the statuses
\* with a status value in `statuses`: a date part neither on the key date
\* nor on the day after it has its warning, one on either of the two days
\* has none, and no error is recorded
TimestampsChecked(statuses) ==
  pc = "done" =>
    /\ \A t \in PopulatedTimestamps(variant.db, statuses) :
         HasDriftWarning(report, t.flight, t.ts_date)
           <=> DayNumber(DayOfKey(t.ts_date)) - DayNumber(DayOfKey(t.date))
                 \notin {0, 1}
    /\ report.errors = <<>>

\* C21: for every flight-date/status pair of the variant, whatever the
\* value of its status field, each populated timestamp field whose date
\* part differs from the key date by anything other than 0 or +1 days
\* produces a warning, a difference of 0 or +1 produces nothing, and the
\* check never records a fatal error.
C21_TimestampDriftWarned == TimestampsChecked(TimestampStatuses)

\* the same for the statuses landed, flying and on_time; under any other
\* status value no timestamp has a warning
TimestampDriftWarnedWhenFlown ==
  /\ TimestampsChecked({"landed", "flying", "on_time"})
  /\ pc = "done" =>
       \A t \in PopulatedTimestamps(
                  variant.db,
                  TimestampStatuses \ {"landed", "flying", "on_time"}) :
         ~HasDriftWarning(report, t.flight, t.ts_date)

\* a landed flight with a timestamp two days after its date has its warning
DriftOfLandedWarned ==
  /\ pc = "done"
  /\ variant.db.flights[1][2].dates[1][2].status = "landed"
  /\ HasDriftWarning(report, HAT001, IsoDateText(2024, 6, 2))

\* where "The current time is <date> <time>" stands in a text
SentinelsIn(t) ==
  {i \in 1..(Len(t) - 38) :
     /\ SubSeq(t, i, i + 19) = CurrentTimeIs
     /\ t[i + 30] = " "
     /\ IsoTimestampLiteral(SubSeq(t, i + 20, i + 29) \o <<"T">>
                              \o SubSeq(t, i + 31, i + 38))}

\* the sentinel at i says 15:00:00 on 2024-05-15 shifted by the offset
SentinelRight(t, i, offset_days) ==
  /\ SubSeq(t, i + 20, i + 29) = DayText(CurrentDay(offset_days))
  /\ SubSeq(t, i + 31, i + 38) = TimeText(15, 0, 0)

\* the errors of the policy check
PolicyChecks ==
  {"Policy.md does not contain a valid 'current time' line",
   "Policy date mismatch", "Policy time mismatch"}

NoPolicyError(res) ==
  \A k \in 1..Len(res.errors) : res.errors[k].check \notin PolicyChecks

\* C22: the policy check records no error only when the policy text has
\* exactly one 'The current time is <date> <time>' sentinel and its date
\* and time are 2024-05-15 15:00:00 shifted by the offset; a missing
\* sentinel, a second occurrence, a wrong date or a wrong time is a fatal
\* error.  The policy transform_policy writes from an original with one
\* such sentinel passes the check for every non-zero offset.
C22_PolicySentinelChecked ==
  pc = "done" =>
    /\ NoPolicyError(report)
         <=> \E i \in SentinelsIn(variant.policy) :
               /\ SentinelsIn(variant.policy) = {i}
               /\ SentinelRight(variant.policy, i, days)
    /\ ~NoPolicyError(report) => ~report.passed
    /\ (op = "generate_offset_dataset" /\ days # 0
          /\ Cardinality(SentinelsIn(policy)) = 1)
         => NoPolicyError(report)

\* the policy check records no error exactly when the text has a sentinel
\* and the first one is right; the policy written from an original whose
\* one sentinel is followed by " EST." passes
FirstSentinelChecked ==
  pc = "done" =>
    /\ NoPolicyError(report)
         <=> \E i \in SentinelsIn(variant.policy) :
               /\ \A j \in SentinelsIn(variant.policy) : i <= j
               /\ SentinelRight(variant.policy, i, days)
    /\ ~NoPolicyError(report) => ~report.passed
    /\ (op = "generate_offset_dataset" /\ days # 0
          /\ \E i \in SentinelsIn(policy) :
               /\ SentinelsIn(policy) = {i}
               /\ SubSeq(policy, i + 39, i + 43) = Est)
         => NoPolicyError(report)

\* a policy with the right sentinel and then a wrong one has passed
SecondSentinelUnnoticed ==
  /\ pc = "done"
  /\ Cardinality(SentinelsIn(variant.policy)) = 2
  /\ \E i \in SentinelsIn(variant.policy) :
       ~SentinelRight(variant.policy, i, days)
  /\ report.passed

\* a policy written by transform_policy has passed
WrittenPolicyPassed ==
  /\ pc = "done"
  /\ op = "generate_offset_dataset"
  /\ variant.policy # policy
  /\ report.passed

\* C23: after any sequence of add_error and add_warning calls on a
\* ValidationResult, passed is true if and only if the error list is
\* empty; add_warning changes neither passed nor the error list; passed
\* never returns to true once it is false; errors and warnings are kept in
\* the order recorded: each call appends its message to its list and
\* leaves the other list as it was.
C23_PassedIffNoErrors ==
  /\ [](report.passed <=> report.errors = <<>>)
  /\ [][/\ op' = "add_warning"
             => /\ report'.passed = report.passed
                /\ report'.errors = report.errors
                /\ report'.warnings = Append(report.warnings, out')
        /\ op' = "add_error"
             => /\ report'.errors = Append(report.errors, out')
                /\ report'.warnings = report.warnings
        /\ ~report.passed => ~report'.passed]_vars

\* a warning has been added to a result that had two errors and a warning
C23_Witness ==
  /\ op = "add_warning"
  /\ ~report.passed
  /\ Len(report.errors) = 2
  /\ Len(report.warnings) = 2

\* the results of the four checks, each run alone on a new
\* ValidationResult, in the order of validate_offset_dataset
ChecksAlone(dir, offset_days) ==
  <<_validate_flight_dates_exist(dir.db, dir.tasks, ValidationResult),
    _validate_dobs_reasonable(dir.db, offset_days, ValidationResult),
    _validate_timestamps_consistent(dir.db, ValidationResult),
    _validate_policy_date(dir.policy, offset_days, ValidationResult)>>

\* the result holds the errors and the warnings of the four results, one
\* check after the other, and passes when none of them has an error
HoldsAll(res, alone) ==
  /\ res.errors = alone[1].errors \o alone[2].errors \o alone[3].errors
                    \o alone[4].errors
  /\ res.warnings = alone[1].warnings \o alone[2].warnings
                      \o alone[3].warnings \o alone[4].warnings
  /\ res.passed <=> \A k \in 1..4 : alone[k].passed

\* validate_offset_dataset has ended on a variant whose three data files
\* loaded
ValidatedLoaded ==
  /\ pc \in {"done", "raised"}
  /\ op = "validate_offset_dataset"
  /\ variant.exists
  /\ DataFiles \subseteq variant.files

AllChecksRunInRange ==
  ValidatedLoaded =>
    IF 739021 + days \in 1..3652059
      THEN pc = "done" /\ HoldsAll(report, ChecksAlone(variant, days))
      ELSE pc = "raised" /\ out = OverflowError

\* every check has recorded: two errors before the policy's, and a warning
AllFourRecorded ==
  /\ pc = "done"
  /\ Len(report.errors) >= 4
  /\ Len(report.warnings) >= 1
  /\ ~NoPolicyError(report)
  /\ ~NoFlightDateError(report)
  /\ HasFutureDobError(report)

(***************************************************************************)
(* Generation in parallel                                                  *)
(***************************************************************************)
\* the two processes generate different variants
DifferentOffsets == procs[1].offset_days # procs[2].offset_days

\* the path is the data or the source directory of the variant: its last
\* part is the variant's name and it is not a directory of the original
IsVariantDirectory(path, offset_days) ==
  /\ offset_days # 0
  /\ IsVariantName(path[Len(path)], offset_days)
  /\ path \notin {AIRLINE_DATA_DIR, AIRLINE_SRC_DIR}

\* the step is one of process p alone: every directory it changes is one
\* of its own variant and every file it writes there is written for its
\* own offset
WritesOnlyOwn(p) ==
  /\ procs'[3 - p] = procs[3 - p]
  /\ \A path \in DOMAIN disk :
       disk'[path] # disk[path]
         => /\ IsVariantDirectory(path, procs[p].offset_days)
            /\ \A f \in disk'[path].files \ disk[path].files :
                 f[2] = procs[p].offset_days

\* the variant of the process is on the disk as generate_offset_dataset
\* alone leaves it
GeneratedAsAlone(p) ==
  /\ disk[get_offset_data_dir(procs[p].offset_days)]
       = DirOf(OriginalDataFiles, procs[p].offset_days)
  /\ disk[get_offset_src_dir(procs[p].offset_days)]
       = DirOf({f[1] : f \in disk[AIRLINE_SRC_DIR].files},
               procs[p].offset_days)

\* C26: two generate_offset_dataset runs with different non-zero offsets at
\* the same time: in every interleaving each step of a run changes only the
\* data and the source directory of its own variant, never a directory of
\* the original or of the other variant, and a run that has returned has
\* left the files it leaves when it runs alone
C26_ParallelGenerationDisjoint ==
  /\ [][DifferentOffsets => \E p \in 1..2 : WritesOnlyOwn(p)]_vars
  /\ [](DifferentOffsets
          => \A p \in 1..2 : procs[p].pc = "done" => GeneratedAsAlone(p))

\* both runs have returned, one of them over an older generation
C26_Witness ==
  /\ DifferentOffsets
  /\ \A p \in 1..2 : procs[p].pc = "done" /\ GeneratedAsAlone(p)
  /\ procs[1].force /\ ~procs[2].force
  /\ disk[AIRLINE_DATA_DIR] = DirOf(OriginalDataFiles, 0)

\* the two runs are for the same variant and neither may overwrite
SameOffsetNoForce ==
  /\ procs[1].offset_days = procs[2].offset_days
  /\ ~procs[1].force /\ ~procs[2].force

\* the runs that have passed the two tests of existence
PastTheTests ==
  {p \in 1..2 : procs[p].pc \in {"mkdir_data", "mkdir_src", "write", "done"}}

\* C28: of two generate_offset_dataset runs for the same offset without
\* force at the same time, at most one passes the tests of existence,
\* creates the directories and writes, and when both have ended one of them
\* has raised FileExistsError
C28_OneGeneratorWins ==
  SameOffsetNoForce
    => /\ Cardinality(PastTheTests) <= 1
       /\ (\A p \in 1..2 : procs[p].pc \in {"done", "raised"})
            => \E p \in 1..2 : procs[p].out = FileExistsError

\* what holds: a run that starts when the other has created the data
\* directory raises FileExistsError, and the runs that pass the tests
\* leave the files of one generation
LateGeneratorFails ==
  [][\A p \in 1..2 :
       /\ SameOffsetNoForce
       /\ procs[p].pc = "start" /\ procs'[p].pc # "start"
       /\ disk[get_offset_data_dir(procs[p].offset_days)].exists
       => procs'[p].out = FileExistsError]_vars

\* both runs have written the variant
BothGeneratorsWrote ==
  /\ SameOffsetNoForce
  /\ \A p \in 1..2 : procs[p].pc = "done" /\ GeneratedAsAlone(p)

(***************************************************************************)
(* Validation and the experiment                                           *)
(***************************************************************************)
\* the offset of the run_domain call of this step
StartedRun == runs'[Len(runs')]

\* the verdicts recorded for the offset
VerdictsOf(offset) ==
  {verdicts[i] : i \in {j \in 1..Len(verdicts) : verdicts[j].offset = offset}}

\* C25: run_domain is started for a non-zero offset only when validation of
\* that variant has run and passed; a variant whose validation has failed
\* is not evaluated (the code has no override to except)
C25_RunsOnlyValidated ==
  [][runs' # runs /\ StartedRun # 0
       => /\ VerdictsOf(StartedRun) # {}
          /\ \A v \in VerdictsOf(StartedRun) : v.passed]_vars

\* what holds: run_domain is started for a non-zero offset only when the
\* process has registered the domain of the variant, whatever validation
\* has said
RunsOnlyRegistered ==
  [][runs' # runs /\ StartedRun # 0
       => get_offset_domain_name(StartedRun) \in procs[3].registry]_vars

\* a variant is evaluated after its validation has failed
RunAfterFailedValidation ==
  \E i \in 1..Len(runs) :
    /\ runs[i] # 0
    /\ \E v \in VerdictsOf(runs[i]) : ~v.passed
    /\ procs[1].pc = "start"

(***************************************************************************)
(* A variant counted as generated                                          *)
(***************************************************************************)
\* the files a completed generate_offset_dataset leaves that the variant
\* lacks
MissingFiles(offset_days) ==
  {f \in OriginalDataFiles :
     ~FileExists(disk[get_offset_data_dir(offset_days)], f)}
    \cup {f[1] : f \in {g \in disk[AIRLINE_SRC_DIR].files :
                          ~FileExists(disk[get_offset_src_dir(offset_days)],
                                      g[1])}}
    \cup {f \in {"__init__.py", "environment.py", "utils.py"} :
            ~FileExists(disk[get_offset_src_dir(offset_days)], f)}

\* C27: is_offset_domain_generated(d) is true for d # 0 only when the
\* variant holds every file of a completed generation: not while a
\* generation is between environment.py and data_model.py, and not after
\* one that was cut short
C27_GeneratedOnlyWhenComplete ==
  \A d \in ParallelOffsets :
    is_offset_domain_generated(d) => MissingFiles(d) = {}

\* what holds: a variant is_offset_domain_generated accepts lacks at most
\* the files written after environment.py
GeneratedUpToEnvironment ==
  \A d \in ParallelOffsets :
    is_offset_domain_generated(d)
      => MissingFiles(d) \subseteq {"utils.py", "data_model.py", "user_tools.py"}

\* a generation was cut short after environment.py, the experiment's test
\* accepted the variant and its import failed
HalfGeneratedAccepted ==
  /\ procs[1].out = KeyboardInterrupt
  /\ is_offset_domain_generated(procs[1].offset_days)
  /\ "data_model.py" \in MissingFiles(procs[1].offset_days)
  /\ procs[3].out = ImportError

(***************************************************************************)
(* The experiment over a list of offsets                                   *)
(***************************************************************************)
\* s is the beginning of t
IsPrefix(s, t) ==
  Len(s) <= Len(t) /\ \A i \in 1..Len(s) : s[i] = t[i]

\* the offsets of the list, each once
Requested(offsets) == {offsets[i] : i \in 1..Len(offsets)}

\* one result path per requested offset, the one of its results directory
OneResultEach(results, offsets) ==
  /\ {results[i][1] : i \in 1..Len(results)} = Requested(offsets)
  /\ Len(results) = Cardinality(Requested(offsets))
  /\ \A i \in 1..Len(results) : results[i][2] = ResultFile(results[i][1])

\* the run_ablation_experiment process ends in one of the two ways: by
\* ValueError with no run started, or by returning one result per offset
\* with the offsets run in the order of the list; `raised` are the
\* exceptions it may end by
EndsChecked(raised) ==
  /\ procs[3].pc \in {"make_run_config", "run_domain", "done"}
       => \A d \in Requested(procs[3].offsets) :
            is_offset_domain_generated(d)
  /\ IsPrefix(runs, procs[3].offsets)
  /\ procs[3].pc = "raised" => procs[3].out \in raised
  /\ procs[3].out = ValueError => runs = <<>>
  /\ procs[3].pc = "done"
       => /\ runs = procs[3].offsets
          /\ OneResultEach(procs[3].out, procs[3].offsets)

\* C29: run_ablation_experiment has tested every requested offset with
\* is_offset_domain_generated before its first run_domain; it either raises
\* ValueError with no run started or runs the offsets in the order of the
\* list and returns one result path per requested offset
C29_ChecksThenRunsAll == EndsChecked({ValueError})

\* what holds: the same with ImportError as a third way to end, after the
\* runs of the offsets before the one whose import failed
ChecksThenRunsUnlessImportFails == EndsChecked({ValueError, ImportError})

\* the experiment ran one offset and ended by ImportError at the next
ImportFailedAfterRun ==
  /\ procs[3].out = ImportError
  /\ Len(runs) = 1
  /\ Len(procs[3].offsets) = 2

(***************************************************************************)
(* Names read back                                                         *)
(***************************************************************************)
\* the variants of days and -days on the disk
OnDisk ==
  {d \in {days, 0 - days} \ {0} : disk[get_offset_data_dir(d)].exists}

\* C30: the offset list_generated_offset_domains reads from the name of a
\* generated variant of d # 0 is d, the offset parse_offset_from_path reads
\* from get_results_dir(d) is d for every d, 0 included, and no other
\* offset has the variant directories or the results directory of d
C30_NamesRoundTrip ==
  /\ pc = "done" /\ op = "list_generated_offset_domains"
       => out = sorted(OnDisk)
  /\ pc = "done" /\ op = "parse_offset_from_path" => out = <<days>>
  /\ \A d \in NameOffsets \ {days} :
       /\ get_offset_data_dir(d) # get_offset_data_dir(days)
       /\ get_offset_src_dir(d) # get_offset_src_dir(days)
       /\ get_results_dir(d) # get_results_dir(days)

\* both variants of 365 days are listed, the negative one first
C30_Witness ==
  /\ pc = "done" /\ op = "list_generated_offset_domains"
  /\ days = 365
  /\ out = <<0 - 365, 365>>

\* the results directory of -365 days is read back
ResultsDirReadBack ==
  /\ pc = "done" /\ op = "parse_offset_from_path"
  /\ days = 0 - 365
  /\ out = <<0 - 365>>

====
